---- MODULE Spec2Model ----
(***************************************************************************)
(* Configuration-management backend (shortname / version / configuration   *)
(* lambdas over DynamoDB tables) and the client-side version duplication.  *)
(*                                                                         *)
(* Every handler invocation is a process in a slot of `req`; each awaited  *)
(* DynamoDB call of the handler is one step.  A DynamoDB call may throw:   *)
(* the handler's catch block then answers 500 (action StoreFault).         *)
(* Tables are maps from the hash-key value to the stored item.  An index   *)
(* query is a consistent read of the items carrying the index attribute.   *)
(* Timestamps are not modelled.                                            *)
(***************************************************************************)
EXTENDS Integers, Sequences, FiniteSets, TLC

VARIABLES
    shortnames,        \* SHORTNAMES_TABLE:         shortname -> item
    versions,          \* VERSIONS_TABLE:           hash key  -> item
    shortnameVersions, \* SHORTNAME_VERSIONS_TABLE: shortnameVersionId -> item
    configurations,    \* CONFIGURATIONS_TABLE:     configId  -> item
    nextId,            \* number of uuidv4() identifiers drawn so far
    req,               \* handler invocations in flight, by slot
    dup,               \* the client running VersionService.duplicateVersion
    users,             \* USERS_TABLE, by userId
    auth,              \* the browser: AuthProvider's state and localStorage
    caller             \* a client of the delete endpoints: what it has seen

tables == <<shortnames, versions, shortnameVersions, configurations, users>>
vars == <<shortnames, versions, shortnameVersions, configurations, nextId, req,
          dup, users, auth, caller>>

-----------------------------------------------------------------------------
(* Bounds *)

NumReqs == 2      \* concurrent handler invocations
MaxConfigs == 3   \* configuration identifiers that can be drawn

Reqs == 1..NumReqs

(* Inputs.  Plain slugs follow the data model; AnySlugs adds a slug the    *)
(* backend accepts although it contains the scope separator.               *)
PlainSlugs == {"s1", "s2"}
PlainLabels == {"v1", "v2"}
ColonSlug == "s1:v1"
ColonLabel == "v1:v2"
AnySlugs == {"s1", ColonSlug}
AnyLabels == {"v2", ColonLabel}
Keys == {"k1", "k2"}
Values == {"x", "y"}
Descriptions == {"", "d"}

Undefined == "<undefined>"   \* an attribute the item does not carry
Null == "<null>"             \* JSON null, and an absent localStorage entry

-----------------------------------------------------------------------------
(* Store primitives *)

Has(table, k) == k \in DOMAIN table

Put(table, k, item) ==
    [x \in (DOMAIN table) \cup {k} |-> IF x = k THEN item ELSE table[x]]

Delete(table, k) == [x \in (DOMAIN table) \ {k} |-> table[x]]

Update(table, k, item) == Put(table, k, item)

RECURSIVE SetToSeq(_)
SetToSeq(S) ==
    IF S = {} THEN <<>>
    ELSE LET x == CHOOSE y \in S : TRUE IN <<x>> \o SetToSeq(S \ {x})

(* Items of a table whose attribute `attr` equals `value`, in the order    *)
(* the index returns them.                                                 *)
QueryShortnameIndex(table, value) ==
    SetToSeq({table[k] : k \in {x \in DOMAIN table : table[x].shortname = value}})

QueryVersionIndex(table, value) ==
    SetToSeq({table[k] : k \in {x \in DOMAIN table : table[x].version = value}})

QueryShortnameVersionIndex(table, value) ==
    SetToSeq({table[k] : k \in {x \in DOMAIN table : table[x].shortnameVersion = value}})

(* `${shortname}:${version}` *)
ScopeKey(shortname, version) == shortname \o ":" \o version

-----------------------------------------------------------------------------
(* The browser: AuthProvider's reducer state, the two localStorage entries *)
(* and where the provider is (unmounted, mounted, awaiting a response).    *)

initialState ==
    [isAuthenticated |-> FALSE, user |-> Null, token |-> Null,
     loading |-> TRUE, error |-> Null]

NoAuth ==
    [pc |-> "unmounted", state |-> initialState,
     storedToken |-> Null, storedUser |-> Null]

(* A client of the delete endpoints: the shortname it is removing, the     *)
(* store it started from and the store its first way of removing it left.  *)
NoCaller ==
    [phase |-> "idle", slug |-> "", store |-> <<>>, result |-> <<>>]

-----------------------------------------------------------------------------
(* Handler invocations *)

(* The event a lambda is invoked with: the Authorization header as the    *)
(* words authHeader.split(' ') yields (<<>> when the header is missing)    *)
(* and the body.  A body either parses or not; `given` names the           *)
(* attributes the parsed object carries.                                    *)
Body(given, value, description) ==
    [wellFormed |-> TRUE, given |-> given, shortname |-> "s1",
     version |-> "v1", key |-> "k1", value |-> value,
     description |-> description, isActive |-> TRUE]

EmptyBody == Body({}, Undefined, Undefined)

NoEvent ==
    [authorization |-> <<"Bearer", "valid">>, body |-> EmptyBody,
     httpMethod |-> "", path |-> <<>>]

(* The body of POST /register; the email is the sequence of its characters *)
(* (<<>> when the body carries none).                                      *)
NoRegistration ==
    [email |-> <<>>, password |-> "", userType |-> "", adminKey |-> Undefined]

NoReq ==
    [op |-> "none", pc |-> "idle", from |-> "none", event |-> NoEvent,
     registration |-> NoRegistration,
     shortname |-> "", version |-> "", key |-> "", value |-> "",
     description |-> "", isActive |-> FALSE, configId |-> 0,
     versions |-> <<>>, configurations |-> <<>>,
     returnedVersions |-> {}, returnedConfigs |-> {},
     deletedVersions |-> {}, deletedConfigs |-> {}, overtaken |-> FALSE,
     status |-> 0, body |-> <<>>]

Idle(r) == req[r].pc = "idle"
At(r, label) == req[r].pc = label
Running(r) == req[r].pc \notin {"idle", "done"}
AllIdle == \A q \in Reqs : Idle(q)

Respond(r, status, body) ==
    req' = [req EXCEPT ![r].pc = "done", ![r].status = status, ![r].body = body]

Goto(r, label) == req' = [req EXCEPT ![r].pc = label]

(* The caller reads the response; the slot is free again. *)
Complete(r) ==
    /\ At(r, "done")
    /\ req[r].from = "client"
    /\ req' = [req EXCEPT ![r] = NoReq]
    /\ UNCHANGED <<tables, nextId, dup, auth, caller>>

(* Mutant: the catch block answers 200. *)
StoreFault_Success(r) ==
    /\ Running(r)
    /\ Respond(r, 200, <<>>)
    /\ UNCHANGED <<tables, nextId, dup, auth, caller>>

(* An awaited DynamoDB call throws; the catch block answers 500. *)
StoreFault(r) ==
    /\ Running(r)
    /\ Respond(r, 500, <<>>)
    /\ dup' = IF req[r].from = "dup" THEN [dup EXCEPT !.faulted = TRUE] ELSE dup
    /\ UNCHANGED <<tables, nextId, auth, caller>>

-----------------------------------------------------------------------------
(* Shortname lambda: createShortname *)

ShortnameItem(shortname, description) ==
    [shortname |-> shortname, description |-> description]

StartCreateShortname(r, shortname, description) ==
    /\ Idle(r)
    /\ req' = [req EXCEPT ![r] = [NoReq EXCEPT !.op = "createShortname",
                  !.pc = "cs_get", !.from = "client",
                  !.shortname = shortname, !.description = description]]
    /\ UNCHANGED <<tables, nextId, dup, auth, caller>>

(* Mutant: the existence check is skipped. *)
CreateShortnameGet_NoCheck(r) ==
    /\ At(r, "cs_get")
    /\ Goto(r, "cs_put")
    /\ UNCHANGED <<tables, nextId, dup, auth, caller>>

CreateShortnameGet(r) ==
    /\ At(r, "cs_get")
    /\ IF Has(shortnames, req[r].shortname)
          THEN Respond(r, 409, <<>>)
          ELSE Goto(r, "cs_put")
    /\ UNCHANGED <<tables, nextId, dup, auth, caller>>

(* Mutant: the put is conditional on the item being absent. *)
CreateShortnamePut_KeepFirst(r) ==
    /\ At(r, "cs_put")
    /\ LET item == ShortnameItem(req[r].shortname, req[r].description) IN
          /\ shortnames' = IF Has(shortnames, req[r].shortname) THEN shortnames
                           ELSE Put(shortnames, req[r].shortname, item)
          /\ Respond(r, 201, <<item>>)
    /\ UNCHANGED <<versions, shortnameVersions, configurations, nextId, dup, users, auth, caller>>

CreateShortnamePut(r) ==
    /\ At(r, "cs_put")
    /\ LET item == ShortnameItem(req[r].shortname, req[r].description) IN
          /\ shortnames' = Put(shortnames, req[r].shortname, item)
          /\ Respond(r, 201, <<item>>)
    /\ UNCHANGED <<versions, shortnameVersions, configurations, nextId, dup, users, auth, caller>>

-----------------------------------------------------------------------------
(* Version lambda, shortname-first: createVersion *)

VersionItem(shortname, version, description, isActive) ==
    [versionId |-> ScopeKey(shortname, version), shortname |-> shortname,
     version |-> version, description |-> description, isActive |-> isActive]

StartCreateVersion(r, shortname, version, description, isActive) ==
    /\ Idle(r)
    /\ req' = [req EXCEPT ![r] = [NoReq EXCEPT !.op = "createVersion",
                  !.pc = "cv_getShortname", !.from = "client",
                  !.shortname = shortname, !.version = version,
                  !.description = description, !.isActive = isActive]]
    /\ UNCHANGED <<tables, nextId, dup, auth, caller>>

(* Mutant: the shortname is not looked up. *)
CreateVersionGetShortname_NoCheck(r) ==
    /\ At(r, "cv_getShortname")
    /\ Goto(r, "cv_getVersion")
    /\ UNCHANGED <<tables, nextId, dup, auth, caller>>

CreateVersionGetShortname(r) ==
    /\ At(r, "cv_getShortname")
    /\ IF ~Has(shortnames, req[r].shortname)
          THEN Respond(r, 404, <<>>)
          ELSE Goto(r, "cv_getVersion")
    /\ UNCHANGED <<tables, nextId, dup, auth, caller>>

CreateVersionGetVersion(r) ==
    /\ At(r, "cv_getVersion")
    /\ IF Has(versions, ScopeKey(req[r].shortname, req[r].version))
          THEN Respond(r, 409, <<>>)
          ELSE Goto(r, "cv_put")
    /\ UNCHANGED <<tables, nextId, dup, auth, caller>>

CreateVersionPut(r) ==
    /\ At(r, "cv_put")
    /\ LET item == VersionItem(req[r].shortname, req[r].version,
                               req[r].description, req[r].isActive) IN
          /\ versions' = Put(versions, item.versionId, item)
          /\ Respond(r, 201, <<item>>)
    /\ UNCHANGED <<shortnames, shortnameVersions, configurations, nextId, dup, users, auth, caller>>

-----------------------------------------------------------------------------
(* Version lambda, shortname-first: updateVersion.  The request body is    *)
(* kept in the event: body.description and body.isActive are undefined     *)
(* when the body does not carry them.                                      *)

StartUpdateVersion(r, shortname, version, updateBody) ==
    /\ Idle(r)
    /\ req' = [req EXCEPT ![r] = [NoReq EXCEPT !.op = "updateVersion",
                  !.pc = "uv_get", !.from = "client", !.shortname = shortname,
                  !.version = version,
                  !.event = [NoEvent EXCEPT !.body = updateBody]]]
    /\ UNCHANGED <<tables, nextId, dup, auth, caller>>

UpdateVersionGet(r) ==
    /\ At(r, "uv_get")
    /\ IF ~Has(versions, ScopeKey(req[r].shortname, req[r].version))
          THEN Respond(r, 404, <<>>)
          ELSE Goto(r, "uv_update")
    /\ UNCHANGED <<tables, nextId, dup, auth, caller>>

(* Mutant: omitted attributes are reset to the defaults of a create.       *)
UpdatedVersion_Defaults(old, body) ==
    [old EXCEPT !.description = IF "description" \in body.given
                                   THEN body.description ELSE "",
                !.isActive = "isActive" \in body.given /\ body.isActive]

(* 'SET updatedAt = :updatedAt' plus description and isActive when they    *)
(* are !== undefined.                                                      *)
UpdatedVersion(old, body) ==
    [old EXCEPT !.description = IF "description" \in body.given
                                   THEN body.description ELSE @,
                !.isActive = IF "isActive" \in body.given
                                THEN body.isActive ELSE @]

(* An item that is no longer there is created by UpdateItem with the key   *)
(* and the supplied attributes alone.                                      *)
BlankVersion(versionId) ==
    [versionId |-> versionId, shortname |-> Undefined, version |-> Undefined,
     description |-> Undefined, isActive |-> FALSE]

UpdateVersionUpdate(r) ==
    /\ At(r, "uv_update")
    /\ LET id == ScopeKey(req[r].shortname, req[r].version)
           old == IF Has(versions, id) THEN versions[id] ELSE BlankVersion(id)
           item == UpdatedVersion(old, req[r].event.body) IN
          /\ versions' = Update(versions, id, item)
          /\ Respond(r, 200, <<item>>)
    /\ UNCHANGED <<shortnames, shortnameVersions, configurations, nextId, dup, users, auth, caller>>

-----------------------------------------------------------------------------
(* Configuration lambda *)

ConfigItem(configId, shortname, version, key, value, description) ==
    [configId |-> configId, shortnameVersion |-> ScopeKey(shortname, version),
     shortname |-> shortname, version |-> version, key |-> key,
     value |-> value, description |-> description]

(* getConfiguration / updateConfiguration / deleteConfiguration: "Verify    *)
(* that the configuration belongs to the specified shortname and version". *)
BelongsToScope(item, shortname, version) ==
    item.shortnameVersion = ScopeKey(shortname, version)

(* createConfiguration: the query on ShortnameVersionIndex filtered by key. *)
ExistingWithKey(shortname, version, key) ==
    SelectSeq(QueryShortnameVersionIndex(configurations, ScopeKey(shortname, version)),
              LAMBDA item : item.key = key)

(* Mutant: the result of the existence query is ignored.                   *)
KeyExists_Never(existing) == FALSE

KeyExists(existing) == Len(existing) > 0

CreatesInFlight ==
    Cardinality({q \in Reqs : req[q].op = "createConfiguration" /\ Running(q)})

StartCreateConfiguration(r, from, shortname, version, key, value, description) ==
    /\ Idle(r)
    /\ nextId + CreatesInFlight < MaxConfigs
    /\ req' = [req EXCEPT ![r] = [NoReq EXCEPT !.op = "createConfiguration",
                  !.pc = "cc_getShortname", !.from = from,
                  !.shortname = shortname, !.version = version, !.key = key,
                  !.value = value, !.description = description]]
    /\ UNCHANGED <<tables, nextId, auth, caller>>

CreateConfigurationGetShortname(r) ==
    /\ At(r, "cc_getShortname")
    /\ IF ~Has(shortnames, req[r].shortname)
          THEN Respond(r, 404, <<>>)
          ELSE Goto(r, "cc_getVersion")
    /\ UNCHANGED <<tables, nextId, dup, auth, caller>>

(* Mutant: the version is not looked up. *)
CreateConfigurationGetVersion_NoCheck(r) ==
    /\ At(r, "cc_getVersion")
    /\ Goto(r, "cc_query")
    /\ UNCHANGED <<tables, nextId, dup, auth, caller>>

CreateConfigurationGetVersion(r) ==
    /\ At(r, "cc_getVersion")
    /\ IF ~Has(versions, ScopeKey(req[r].shortname, req[r].version))
          THEN Respond(r, 404, <<>>)
          ELSE Goto(r, "cc_query")
    /\ UNCHANGED <<tables, nextId, dup, auth, caller>>

CreateConfigurationQuery(r) ==
    /\ At(r, "cc_query")
    /\ IF KeyExists(ExistingWithKey(req[r].shortname, req[r].version, req[r].key))
          THEN Respond(r, 409, <<>>)
          ELSE Goto(r, "cc_put")
    /\ UNCHANGED <<tables, nextId, dup, auth, caller>>

(* History: q is a createConfiguration for the scope and key of r.          *)
SameCreate(q, r) ==
    /\ req[q].op = "createConfiguration"
    /\ ScopeKey(req[q].shortname, req[q].version)
          = ScopeKey(req[r].shortname, req[r].version)
    /\ req[q].key = req[r].key

CreateConfigurationPut(r) ==
    /\ At(r, "cc_put")
    /\ LET item == ConfigItem(nextId + 1, req[r].shortname, req[r].version,
                              req[r].key, req[r].value, req[r].description) IN
          /\ nextId' = nextId + 1
          /\ configurations' = Put(configurations, item.configId, item)
          /\ req' = [q \in Reqs |->
                IF q = r
                   THEN [req[r] EXCEPT !.pc = "done", !.status = 201, !.body = <<item>>]
                ELSE IF SameCreate(q, r) /\ At(q, "cc_put")
                   THEN [req[q] EXCEPT !.overtaken = TRUE]
                ELSE req[q]]
    /\ UNCHANGED <<shortnames, versions, shortnameVersions, dup, users, auth, caller>>

StartGetAllConfigurations(r, from, shortname, version) ==
    /\ Idle(r)
    /\ req' = [req EXCEPT ![r] = [NoReq EXCEPT !.op = "getAllConfigurations",
                  !.pc = "ga_query", !.from = from,
                  !.shortname = shortname, !.version = version]]
    /\ UNCHANGED <<tables, nextId, auth, caller>>

GetAllConfigurationsQuery(r) ==
    /\ At(r, "ga_query")
    /\ Respond(r, 200, QueryShortnameVersionIndex(configurations,
                          ScopeKey(req[r].shortname, req[r].version)))
    /\ UNCHANGED <<tables, nextId, dup, auth, caller>>

StartGetConfiguration(r, shortname, version, configId) ==
    /\ Idle(r)
    /\ req' = [req EXCEPT ![r] = [NoReq EXCEPT !.op = "getConfiguration",
                  !.pc = "gc_get", !.from = "client", !.shortname = shortname,
                  !.version = version, !.configId = configId]]
    /\ UNCHANGED <<tables, nextId, dup, auth, caller>>

GetConfigurationGet(r) ==
    /\ At(r, "gc_get")
    /\ IF ~Has(configurations, req[r].configId)
          THEN Respond(r, 404, <<>>)
          ELSE IF ~BelongsToScope(configurations[req[r].configId],
                                  req[r].shortname, req[r].version)
                  THEN Respond(r, 404, <<>>)
                  ELSE Respond(r, 200, <<configurations[req[r].configId]>>)
    /\ UNCHANGED <<tables, nextId, dup, auth, caller>>

(* PUT: only updateBody.value and updateBody.description are passed on.   *)
StartUpdateConfiguration(r, shortname, version, configId, updateBody) ==
    /\ Idle(r)
    /\ req' = [req EXCEPT ![r] = [NoReq EXCEPT !.op = "updateConfiguration",
                  !.pc = "uc_get", !.from = "client", !.shortname = shortname,
                  !.version = version, !.configId = configId,
                  !.value = updateBody.value,
                  !.description = updateBody.description]]
    /\ UNCHANGED <<tables, nextId, dup, auth, caller>>

UpdateConfigurationGet(r) ==
    /\ At(r, "uc_get")
    /\ IF ~Has(configurations, req[r].configId)
          THEN Respond(r, 404, <<>>)
          ELSE IF ~BelongsToScope(configurations[req[r].configId],
                                  req[r].shortname, req[r].version)
                  THEN Respond(r, 404, <<>>)
                  ELSE Goto(r, "uc_update")
    /\ UNCHANGED <<tables, nextId, dup, auth, caller>>

(* UpdateItem: SET the supplied attributes on the item with this key; an   *)
(* item that is no longer there is created with those attributes alone.    *)
(* Mutant: the item is replaced by the supplied attributes. *)
UpdatedConfig_Replace(old, value, description) ==
    [configId |-> old.configId, shortnameVersion |-> Undefined,
     shortname |-> Undefined, version |-> Undefined, key |-> Undefined,
     value |-> value, description |-> description]

UpdatedConfig(old, value, description) ==
    [old EXCEPT !.value = IF value # Undefined THEN value ELSE @,
                !.description = IF description # Undefined THEN description ELSE @]

BlankConfig(configId) ==
    [configId |-> configId, shortnameVersion |-> Undefined,
     shortname |-> Undefined, version |-> Undefined, key |-> Undefined,
     value |-> Undefined, description |-> Undefined]

UpdateConfigurationUpdate(r) ==
    /\ At(r, "uc_update")
    /\ LET id == req[r].configId
           old == IF Has(configurations, id) THEN configurations[id]
                  ELSE BlankConfig(id)
           item == UpdatedConfig(old, req[r].value, req[r].description) IN
          \/ /\ configurations' = Update(configurations, id, item)
             /\ Respond(r, 200, <<item>>)
          \/ \* '#value' is always among the ExpressionAttributeNames: when
             \* no value is supplied the name is unused and the store may
             \* reject the call, which the catch block answers with 500.
             /\ req[r].value = Undefined
             /\ configurations' = configurations
             /\ Respond(r, 500, <<>>)
    /\ UNCHANGED <<shortnames, versions, shortnameVersions, nextId, dup, users, auth, caller>>

StartDeleteConfiguration(r, shortname, version, configId) ==
    /\ Idle(r)
    /\ req' = [req EXCEPT ![r] = [NoReq EXCEPT !.op = "deleteConfiguration",
                  !.pc = "dc_get", !.from = "client", !.shortname = shortname,
                  !.version = version, !.configId = configId]]
    /\ UNCHANGED <<tables, nextId, dup, auth, caller>>

DeleteConfigurationGet(r) ==
    /\ At(r, "dc_get")
    /\ IF ~Has(configurations, req[r].configId)
          THEN Respond(r, 404, <<>>)
          ELSE IF ~BelongsToScope(configurations[req[r].configId],
                                  req[r].shortname, req[r].version)
                  THEN Respond(r, 404, <<>>)
                  ELSE Goto(r, "dc_delete")
    /\ UNCHANGED <<tables, nextId, dup, auth, caller>>

DeleteConfigurationDelete(r) ==
    /\ At(r, "dc_delete")
    /\ configurations' = Delete(configurations, req[r].configId)
    /\ Respond(r, 200, <<>>)
    /\ UNCHANGED <<shortnames, versions, shortnameVersions, nextId, dup, users, auth, caller>>

-----------------------------------------------------------------------------
(* Shortname lambda: deleteShortname *)

ConfigStep(r) ==
    \/ GetAllConfigurationsQuery(r)
    \/ GetConfigurationGet(r)
    \/ UpdateConfigurationGet(r) \/ UpdateConfigurationUpdate(r)
    \/ DeleteConfigurationGet(r) \/ DeleteConfigurationDelete(r)

(* Mutant: the versions returned by the index query are not walked.        *)
DeleteShortnameNextVersion_Skip(remaining) == "ds_deleteShortname"

(* Mutant: the version is deleted before its configurations.               *)
DeleteShortnameNextConfig_ParentFirst(remaining) == "ds_deleteVersion"

(* The `for (const version of versions)` loop: its next await.             *)
DeleteShortnameNextVersion(remaining) ==
    IF remaining = <<>> THEN "ds_deleteShortname" ELSE "ds_queryConfigurations"

(* The `for (const config of configurations)` loop: its next await.        *)
DeleteShortnameNextConfig(remaining) ==
    IF remaining = <<>> THEN "ds_deleteVersion" ELSE "ds_deleteConfiguration"

StartDeleteShortname(r, shortname) ==
    /\ Idle(r)
    /\ req' = [req EXCEPT ![r] = [NoReq EXCEPT !.op = "deleteShortname",
                  !.pc = "ds_get", !.from = "client", !.shortname = shortname]]
    /\ UNCHANGED <<tables, nextId, dup, auth, caller>>

(* Mutant: the Shortname item is deleted as soon as it has been found.     *)
DeleteShortnameGet_DeleteFirst(r) ==
    /\ At(r, "ds_get")
    /\ IF ~Has(shortnames, req[r].shortname)
          THEN Respond(r, 404, <<>>) /\ UNCHANGED shortnames
          ELSE /\ Goto(r, "ds_queryVersions")
               /\ shortnames' = Delete(shortnames, req[r].shortname)
    /\ UNCHANGED <<versions, shortnameVersions, configurations, users, nextId,
                   dup, auth, caller>>

DeleteShortnameGet(r) ==
    /\ At(r, "ds_get")
    /\ IF ~Has(shortnames, req[r].shortname)
          THEN Respond(r, 404, <<>>)
          ELSE Goto(r, "ds_queryVersions")
    /\ UNCHANGED <<tables, nextId, dup, auth, caller>>

DeleteShortnameQueryVersions(r) ==
    /\ At(r, "ds_queryVersions")
    /\ LET found == QueryShortnameIndex(versions, req[r].shortname) IN
          req' = [req EXCEPT ![r].versions = found,
                    ![r].returnedVersions = {found[i].versionId : i \in 1..Len(found)},
                    ![r].pc = DeleteShortnameNextVersion(found)]
    /\ UNCHANGED <<tables, nextId, dup, auth, caller>>

(* Mutant: the configurations are looked up by the version label alone.    *)
DeleteShortnameQueryConfigurations_ByLabel(r) ==
    /\ At(r, "ds_queryConfigurations")
    /\ LET found == QueryShortnameVersionIndex(configurations,
                        Head(req[r].versions).version) IN
          req' = [req EXCEPT ![r].configurations = found,
                    ![r].returnedConfigs = {found[i].configId : i \in 1..Len(found)},
                    ![r].pc = DeleteShortnameNextConfig(found)]
    /\ UNCHANGED <<tables, nextId, dup, auth, caller>>

DeleteShortnameQueryConfigurations(r) ==
    /\ At(r, "ds_queryConfigurations")
    /\ LET found == QueryShortnameVersionIndex(configurations,
                        ScopeKey(req[r].shortname, Head(req[r].versions).version)) IN
          req' = [req EXCEPT ![r].configurations = found,
                    ![r].returnedConfigs = {found[i].configId : i \in 1..Len(found)},
                    ![r].pc = DeleteShortnameNextConfig(found)]
    /\ UNCHANGED <<tables, nextId, dup, auth, caller>>

DeleteShortnameDeleteConfiguration(r) ==
    /\ At(r, "ds_deleteConfiguration")
    /\ LET config == Head(req[r].configurations)
           rest == Tail(req[r].configurations) IN
          /\ configurations' = Delete(configurations, config.configId)
          /\ req' = [req EXCEPT ![r].configurations = rest,
                       ![r].deletedConfigs = @ \cup {config.configId},
                       ![r].pc = DeleteShortnameNextConfig(rest)]
    /\ UNCHANGED <<shortnames, versions, shortnameVersions, nextId, dup, users, auth, caller>>

DeleteShortnameDeleteVersion(r) ==
    /\ At(r, "ds_deleteVersion")
    /\ LET version == Head(req[r].versions)
           rest == Tail(req[r].versions) IN
          /\ versions' = Delete(versions, version.versionId)
          /\ req' = [req EXCEPT ![r].versions = rest,
                       ![r].deletedVersions = @ \cup {version.versionId},
                       ![r].pc = DeleteShortnameNextVersion(rest)]
    /\ UNCHANGED <<shortnames, shortnameVersions, configurations, nextId, dup, users, auth, caller>>

DeleteShortnameDeleteShortname(r) ==
    /\ At(r, "ds_deleteShortname")
    /\ shortnames' = Delete(shortnames, req[r].shortname)
    /\ Respond(r, 200, <<>>)
    /\ UNCHANGED <<versions, shortnameVersions, configurations, nextId, dup, users, auth, caller>>

-----------------------------------------------------------------------------
(* Version lambda, shortname-first: deleteVersion *)

(* Mutant: the version is deleted before its configurations.               *)
DeleteVersionNextConfig_ParentFirst(remaining) == "dv_deleteVersion"

DeleteVersionNextConfig(remaining) ==
    IF remaining = <<>> THEN "dv_deleteVersion" ELSE "dv_deleteConfiguration"

StartDeleteVersion(r, shortname, version) ==
    /\ Idle(r)
    /\ req' = [req EXCEPT ![r] = [NoReq EXCEPT !.op = "deleteVersion",
                  !.pc = "dv_get", !.from = "client",
                  !.shortname = shortname, !.version = version]]
    /\ UNCHANGED <<tables, nextId, dup, auth, caller>>

DeleteVersionGet(r) ==
    /\ At(r, "dv_get")
    /\ IF ~Has(versions, ScopeKey(req[r].shortname, req[r].version))
          THEN Respond(r, 404, <<>>)
          ELSE Goto(r, "dv_queryConfigurations")
    /\ UNCHANGED <<tables, nextId, dup, auth, caller>>

DeleteVersionQueryConfigurations(r) ==
    /\ At(r, "dv_queryConfigurations")
    /\ LET found == QueryShortnameVersionIndex(configurations,
                        ScopeKey(req[r].shortname, req[r].version)) IN
          req' = [req EXCEPT ![r].configurations = found,
                    ![r].returnedConfigs = {found[i].configId : i \in 1..Len(found)},
                    ![r].pc = DeleteVersionNextConfig(found)]
    /\ UNCHANGED <<tables, nextId, dup, auth, caller>>

DeleteVersionDeleteConfiguration(r) ==
    /\ At(r, "dv_deleteConfiguration")
    /\ LET config == Head(req[r].configurations)
           rest == Tail(req[r].configurations) IN
          /\ configurations' = Delete(configurations, config.configId)
          /\ req' = [req EXCEPT ![r].configurations = rest,
                       ![r].deletedConfigs = @ \cup {config.configId},
                       ![r].pc = DeleteVersionNextConfig(rest)]
    /\ UNCHANGED <<shortnames, versions, shortnameVersions, nextId, dup, users, auth, caller>>

DeleteVersionDeleteVersion(r) ==
    /\ At(r, "dv_deleteVersion")
    /\ versions' = Delete(versions, ScopeKey(req[r].shortname, req[r].version))
    /\ req' = [req EXCEPT ![r].pc = "done", ![r].status = 200,
                 ![r].deletedVersions = @ \cup {ScopeKey(req[r].shortname, req[r].version)}]
    /\ UNCHANGED <<shortnames, shortnameVersions, configurations, nextId, dup, users, auth, caller>>

-----------------------------------------------------------------------------
(* Version lambda, version-first routes: createVersion                      *)

TopVersionItem(version, description, isActive) ==
    [versionId |-> Undefined, shortname |-> Undefined, version |-> version,
     description |-> description, isActive |-> isActive]

StartTopCreateVersion(r, from, version, description, isActive) ==
    /\ Idle(r)
    /\ req' = [req EXCEPT ![r] = [NoReq EXCEPT !.op = "createVersion",
                  !.pc = "tv_get", !.from = from, !.version = version,
                  !.description = description, !.isActive = isActive]]
    /\ UNCHANGED <<tables, nextId, auth, caller>>

(* Mutant: the existence check never finds the version.                    *)
VersionExists_Never(version) == FALSE

VersionExists(version) == Has(versions, version)

TopCreateVersionGet(r) ==
    /\ At(r, "tv_get")
    /\ IF VersionExists(req[r].version)
          THEN Respond(r, 409, <<>>)
          ELSE Goto(r, "tv_put")
    /\ UNCHANGED <<tables, nextId, dup, auth, caller>>

TopCreateVersionPut(r) ==
    /\ At(r, "tv_put")
    /\ LET item == TopVersionItem(req[r].version, req[r].description,
                                  req[r].isActive) IN
          /\ versions' = Put(versions, req[r].version, item)
          /\ Respond(r, 201, <<item>>)
    /\ UNCHANGED <<shortnames, shortnameVersions, configurations, nextId, dup, users, auth, caller>>

-----------------------------------------------------------------------------
(* Version lambda, shortname routes of the association layout:              *)
(* createVersionForShortname                                                *)

(* shortnameVersionItem: description || '', isActive || false *)
VersionForShortnameItem(shortname, version, description, isActive) ==
    [shortnameVersionId |-> ScopeKey(shortname, version),
     shortname |-> shortname, version |-> version,
     description |-> description, isActive |-> isActive]

StartCreateVersionForShortname(r, shortname, version, description, isActive) ==
    /\ Idle(r)
    /\ req' = [req EXCEPT ![r] = [NoReq EXCEPT !.op = "createVersionForShortname",
                  !.pc = "cvs_getShortname", !.from = "client",
                  !.shortname = shortname, !.version = version,
                  !.description = description, !.isActive = isActive]]
    /\ UNCHANGED <<tables, nextId, dup, auth, caller>>

CreateVersionForShortnameGetShortname(r) ==
    /\ At(r, "cvs_getShortname")
    /\ IF ~Has(shortnames, req[r].shortname)
          THEN Respond(r, 404, <<>>)
          ELSE Goto(r, "cvs_getVersion")
    /\ UNCHANGED <<tables, nextId, dup, auth, caller>>

CreateVersionForShortnameGetVersion(r) ==
    /\ At(r, "cvs_getVersion")
    /\ IF ~Has(versions, req[r].version)
          THEN Goto(r, "cvs_putVersion")
          ELSE Goto(r, "cvs_getAssociation")
    /\ UNCHANGED <<tables, nextId, dup, auth, caller>>

CreateVersionForShortnamePutVersion(r) ==
    /\ At(r, "cvs_putVersion")
    /\ versions' = Put(versions, req[r].version,
                       TopVersionItem(req[r].version, req[r].description,
                                      req[r].isActive))
    /\ Goto(r, "cvs_getAssociation")
    /\ UNCHANGED <<shortnames, shortnameVersions, configurations, nextId, dup, users, auth, caller>>

CreateVersionForShortnameGetAssociation(r) ==
    /\ At(r, "cvs_getAssociation")
    /\ IF Has(shortnameVersions, ScopeKey(req[r].shortname, req[r].version))
          THEN Respond(r, 409, <<>>)
          ELSE Goto(r, "cvs_putAssociation")
    /\ UNCHANGED <<tables, nextId, dup, auth, caller>>

CreateVersionForShortnamePutAssociation(r) ==
    /\ At(r, "cvs_putAssociation")
    /\ LET item == VersionForShortnameItem(req[r].shortname, req[r].version,
                       req[r].description, req[r].isActive) IN
          /\ shortnameVersions' = Put(shortnameVersions, item.shortnameVersionId, item)
          /\ Respond(r, 201, <<item>>)
    /\ UNCHANGED <<shortnames, versions, configurations, nextId, dup, users, auth, caller>>

CreateVersionForShortnameStep(r) ==
    \/ CreateVersionForShortnameGetShortname(r)
    \/ CreateVersionForShortnameGetVersion(r)
    \/ CreateVersionForShortnamePutVersion(r)
    \/ CreateVersionForShortnameGetAssociation(r)
    \/ CreateVersionForShortnamePutAssociation(r)

-----------------------------------------------------------------------------
(* Version lambda, version-first routes: deleteVersion                      *)

(* The `for (const shortnameVersion of shortnameVersions)` loop.           *)
TopDeleteVersionNextAssociation(remaining) ==
    IF remaining = <<>> THEN "tdv_deleteVersion" ELSE "tdv_queryConfigurations"

(* The `for (const config of configurations)` loop.                        *)
TopDeleteVersionNextConfig(remaining) ==
    IF remaining = <<>> THEN "tdv_deleteAssociation" ELSE "tdv_deleteConfiguration"

StartTopDeleteVersion(r, version) ==
    /\ Idle(r)
    /\ req' = [req EXCEPT ![r] = [NoReq EXCEPT !.op = "topDeleteVersion",
                  !.pc = "tdv_get", !.from = "client", !.version = version]]
    /\ UNCHANGED <<tables, nextId, dup, auth, caller>>

TopDeleteVersionGet(r) ==
    /\ At(r, "tdv_get")
    /\ IF ~Has(versions, req[r].version)
          THEN Respond(r, 404, <<>>)
          ELSE Goto(r, "tdv_queryAssociations")
    /\ UNCHANGED <<tables, nextId, dup, auth, caller>>

TopDeleteVersionQueryAssociations(r) ==
    /\ At(r, "tdv_queryAssociations")
    /\ LET found == QueryVersionIndex(shortnameVersions, req[r].version) IN
          req' = [req EXCEPT ![r].versions = found,
                    ![r].returnedVersions =
                        {found[i].shortnameVersionId : i \in 1..Len(found)},
                    ![r].pc = TopDeleteVersionNextAssociation(found)]
    /\ UNCHANGED <<tables, nextId, dup, auth, caller>>

TopDeleteVersionQueryConfigurations(r) ==
    /\ At(r, "tdv_queryConfigurations")
    /\ LET found == QueryShortnameVersionIndex(configurations,
                        ScopeKey(Head(req[r].versions).shortname, req[r].version)) IN
          req' = [req EXCEPT ![r].configurations = found,
                    ![r].returnedConfigs = @ \cup {found[i].configId : i \in 1..Len(found)},
                    ![r].pc = TopDeleteVersionNextConfig(found)]
    /\ UNCHANGED <<tables, nextId, dup, auth, caller>>

TopDeleteVersionDeleteConfiguration(r) ==
    /\ At(r, "tdv_deleteConfiguration")
    /\ LET config == Head(req[r].configurations)
           rest == Tail(req[r].configurations) IN
          /\ configurations' = Delete(configurations, config.configId)
          /\ req' = [req EXCEPT ![r].configurations = rest,
                       ![r].deletedConfigs = @ \cup {config.configId},
                       ![r].pc = TopDeleteVersionNextConfig(rest)]
    /\ UNCHANGED <<shortnames, versions, shortnameVersions, nextId, dup, users, auth, caller>>

TopDeleteVersionDeleteAssociation(r) ==
    /\ At(r, "tdv_deleteAssociation")
    /\ LET association == Head(req[r].versions)
           rest == Tail(req[r].versions) IN
          /\ shortnameVersions' =
                Delete(shortnameVersions, association.shortnameVersionId)
          /\ req' = [req EXCEPT ![r].versions = rest,
                       ![r].deletedVersions = @ \cup {association.shortnameVersionId},
                       ![r].pc = TopDeleteVersionNextAssociation(rest)]
    /\ UNCHANGED <<shortnames, versions, configurations, nextId, dup, users, auth, caller>>

TopDeleteVersionDeleteVersion(r) ==
    /\ At(r, "tdv_deleteVersion")
    /\ versions' = Delete(versions, req[r].version)
    /\ Respond(r, 200, <<>>)
    /\ UNCHANGED <<shortnames, shortnameVersions, configurations, nextId, dup, users, auth, caller>>

TopDeleteVersionStep(r) ==
    \/ TopDeleteVersionGet(r)
    \/ TopDeleteVersionQueryAssociations(r)
    \/ TopDeleteVersionQueryConfigurations(r)
    \/ TopDeleteVersionDeleteConfiguration(r)
    \/ TopDeleteVersionDeleteAssociation(r)
    \/ TopDeleteVersionDeleteVersion(r)

-----------------------------------------------------------------------------
(* Version lambda, version-first routes: getVersionShortnames               *)

StartGetVersionShortnames(r, from, version) ==
    /\ Idle(r)
    /\ req' = [req EXCEPT ![r] = [NoReq EXCEPT !.op = "getVersionShortnames",
                  !.pc = "gs_query", !.from = from, !.version = version]]
    /\ UNCHANGED <<tables, nextId, auth, caller>>

(* result.Items.map(item => ({shortname, description})) *)
ShortnamesOfVersion(version) ==
    LET found == QueryVersionIndex(shortnameVersions, version) IN
        [i \in 1..Len(found) |-> [shortname |-> found[i].shortname,
                                  description |-> found[i].description]]

GetVersionShortnamesQuery(r) ==
    /\ At(r, "gs_query")
    /\ Respond(r, 200, ShortnamesOfVersion(req[r].version))
    /\ UNCHANGED <<tables, nextId, dup, auth, caller>>

-----------------------------------------------------------------------------
(* Version lambda, version-first routes: addShortnameToVersion              *)

(* description || `Version ${version} for ${shortname}` *)
AssociationDescription(shortname, version, description) ==
    IF description = "" THEN "Version " \o version \o " for " \o shortname
    ELSE description

ShortnameVersionItem(shortname, version, description) ==
    [shortnameVersionId |-> ScopeKey(shortname, version),
     shortname |-> shortname, version |-> version,
     description |-> AssociationDescription(shortname, version, description),
     isActive |-> TRUE]

StartAddShortnameToVersion(r, from, version, shortname, description) ==
    /\ Idle(r)
    /\ req' = [req EXCEPT ![r] = [NoReq EXCEPT !.op = "addShortnameToVersion",
                  !.pc = "as_getVersion", !.from = from, !.version = version,
                  !.shortname = shortname, !.description = description]]
    /\ UNCHANGED <<tables, nextId, auth, caller>>

AddShortnameToVersionGetVersion(r) ==
    /\ At(r, "as_getVersion")
    /\ IF ~Has(versions, req[r].version)
          THEN Respond(r, 404, <<>>)
          ELSE Goto(r, "as_getShortname")
    /\ UNCHANGED <<tables, nextId, dup, auth, caller>>

AddShortnameToVersionGetShortname(r) ==
    /\ At(r, "as_getShortname")
    /\ IF ~Has(shortnames, req[r].shortname)
          THEN Goto(r, "as_putShortname")
          ELSE Goto(r, "as_getAssociation")
    /\ UNCHANGED <<tables, nextId, dup, auth, caller>>

AddShortnameToVersionPutShortname(r) ==
    /\ At(r, "as_putShortname")
    /\ shortnames' = Put(shortnames, req[r].shortname,
                         ShortnameItem(req[r].shortname, req[r].description))
    /\ Goto(r, "as_getAssociation")
    /\ UNCHANGED <<versions, shortnameVersions, configurations, nextId, dup, users, auth, caller>>

AddShortnameToVersionGetAssociation(r) ==
    /\ At(r, "as_getAssociation")
    /\ IF Has(shortnameVersions, ScopeKey(req[r].shortname, req[r].version))
          THEN Respond(r, 409, <<>>)
          ELSE Goto(r, "as_putAssociation")
    /\ UNCHANGED <<tables, nextId, dup, auth, caller>>

AddShortnameToVersionPutAssociation(r) ==
    /\ At(r, "as_putAssociation")
    /\ LET item == ShortnameVersionItem(req[r].shortname, req[r].version,
                                        req[r].description) IN
          /\ shortnameVersions' = Put(shortnameVersions, item.shortnameVersionId, item)
          /\ Respond(r, 201, <<[shortname |-> item.shortname,
                                version |-> item.version,
                                description |-> item.description]>>)
    /\ UNCHANGED <<shortnames, versions, configurations, nextId, dup, users, auth, caller>>

VersionFirstStep(r) ==
    \/ TopCreateVersionGet(r) \/ TopCreateVersionPut(r)
    \/ GetVersionShortnamesQuery(r)
    \/ AddShortnameToVersionGetVersion(r)
    \/ AddShortnameToVersionGetShortname(r)
    \/ AddShortnameToVersionPutShortname(r)
    \/ AddShortnameToVersionGetAssociation(r)
    \/ AddShortnameToVersionPutAssociation(r)

-----------------------------------------------------------------------------
(* Client: VersionService.duplicateVersion.  The client awaits one HTTP     *)
(* request at a time, issued in slot DupSlot; between two awaits it runs    *)
(* without interruption.  Fields listed, order, failed, conflicted, posted, *)
(* created and faulted record what the call has done so far.                *)

DupSlot == 1

NoDup ==
    [pc |-> "idle", sourceVersion |-> "", version |-> "",
     shortnames |-> <<>>, configurations |-> <<>>,
     newVersion |-> <<>>, error |-> 0,
     listed |-> {}, order |-> <<>>, failed |-> {}, conflicted |-> {},
     posted |-> {}, created |-> {}, faulted |-> FALSE]

(* BaseService.handleApiResponse: response.ok *)
ResponseOk(status) == status \in 200..299

Awaited == req[DupSlot].pc = "done" /\ req[DupSlot].from = "dup"

Request(op, pc, shortname, version, description) ==
    [NoReq EXCEPT !.op = op, !.pc = pc, !.from = "dup",
                  !.shortname = shortname, !.version = version,
                  !.description = description]

(* this.post(newConfigUrl, {key, value, description}) *)
PostConfiguration(d, config) ==
    [Request("createConfiguration", "cc_getShortname",
             Head(d.shortnames).shortname, d.version, config.description)
        EXCEPT !.key = config.key, !.value = config.value]

(* The head of `for (const shortname of shortnamesResponse.shortnames)`:   *)
(* the next association request, or `return newVersion`.                   *)
NextShortname(d) ==
    IF d.shortnames = <<>>
       THEN <<[d EXCEPT !.pc = "returned"], NoReq>>
       ELSE <<[d EXCEPT !.pc = "w_createShortnameInVersion",
                        !.order = Append(@, Head(d.shortnames).shortname)],
              Request("addShortnameToVersion", "as_getVersion",
                      Head(d.shortnames).shortname, d.version,
                      Head(d.shortnames).description)>>

(* The head of `for (const config of configsResponse.configurations)`.     *)
NextConfiguration(d) ==
    IF d.configurations = <<>>
       THEN NextShortname([d EXCEPT !.shortnames = Tail(@)])
       ELSE <<[d EXCEPT !.pc = "w_post"],
              PostConfiguration(d, Head(d.configurations))>>

(* Mutant: the catch block leaves the loop.                                *)
Caught_Break(d, status) ==
    <<[d EXCEPT !.pc = "returned",
                !.failed = @ \cup {Head(d.shortnames).shortname}], NoReq>>

(* catch (err) { console.error(...) }: continue with the next shortname.   *)
Caught(d, status) ==
    NextShortname([d EXCEPT
        !.failed = @ \cup {Head(d.shortnames).shortname},
        !.conflicted = IF status = 409
                       THEN @ \cup {Head(d.shortnames).shortname} ELSE @,
        !.shortnames = Tail(@), !.configurations = <<>>])

(* Mutant: the outer catch does not rethrow.                               *)
Thrown_Swallow(d, status) == <<[d EXCEPT !.pc = "returned"], NoReq>>

(* The outer catch: setError, throw error. *)
Thrown(d, status) == <<[d EXCEPT !.pc = "thrown", !.error = status], NoReq>>

Resume(next) ==
    /\ dup' = next[1]
    /\ req' = [req EXCEPT ![DupSlot] = next[2]]
    /\ UNCHANGED <<tables, nextId, auth, caller>>

StartDuplicateVersion(sourceVersion, version) ==
    /\ dup.pc = "idle"
    /\ Idle(DupSlot)
    /\ Resume(<<[NoDup EXCEPT !.pc = "w_createVersion",
                    !.sourceVersion = sourceVersion, !.version = version,
                    !.created = dup.created],
                [Request("createVersion", "tv_get", "", version, "")
                    EXCEPT !.isActive = TRUE]>>)

DuplicateVersionCreated ==
    /\ dup.pc = "w_createVersion"
    /\ Awaited
    /\ IF ResponseOk(req[DupSlot].status)
          THEN Resume(<<[dup EXCEPT !.pc = "w_getVersionShortnames",
                            !.newVersion = req[DupSlot].body,
                            !.created = @ \cup {dup.version}],
                        Request("getVersionShortnames", "gs_query", "",
                                dup.sourceVersion, "")>>)
          ELSE Resume(Thrown(dup, req[DupSlot].status))

DuplicateVersionListed ==
    /\ dup.pc = "w_getVersionShortnames"
    /\ Awaited
    /\ IF ResponseOk(req[DupSlot].status)
          THEN LET found == req[DupSlot].body IN
               Resume(NextShortname([dup EXCEPT !.shortnames = found,
                   !.listed = {found[i].shortname : i \in 1..Len(found)}]))
          ELSE Resume(Thrown(dup, req[DupSlot].status))

DuplicateVersionAssociated ==
    /\ dup.pc = "w_createShortnameInVersion"
    /\ Awaited
    /\ IF ResponseOk(req[DupSlot].status)
          THEN Resume(<<[dup EXCEPT !.pc = "w_get"],
                        Request("getAllConfigurations", "ga_query",
                                Head(dup.shortnames).shortname,
                                dup.sourceVersion, "")>>)
          ELSE Resume(Caught(dup, req[DupSlot].status))

DuplicateVersionConfigurationsListed ==
    /\ dup.pc = "w_get"
    /\ Awaited
    /\ IF ResponseOk(req[DupSlot].status)
          THEN Resume(NextConfiguration(
                   [dup EXCEPT !.configurations = req[DupSlot].body]))
          ELSE Resume(Caught(dup, req[DupSlot].status))

(* Mutant: a failed post is skipped and the loop goes on with the next     *)
(* configuration.                                                          *)
DuplicateVersionConfigurationPosted_SkipFailed ==
    /\ dup.pc = "w_post"
    /\ Awaited
    /\ IF ResponseOk(req[DupSlot].status)
          THEN Resume(NextConfiguration([dup EXCEPT
                   !.configurations = Tail(@),
                   !.posted = @ \cup {<<Head(dup.shortnames).shortname,
                                        Head(dup.configurations).key>>}]))
          ELSE Resume(NextConfiguration([dup EXCEPT
                   !.configurations = Tail(@),
                   !.failed = @ \cup {Head(dup.shortnames).shortname}]))

DuplicateVersionConfigurationPosted ==
    /\ dup.pc = "w_post"
    /\ Awaited
    /\ IF ResponseOk(req[DupSlot].status)
          THEN Resume(NextConfiguration([dup EXCEPT
                   !.configurations = Tail(@),
                   !.posted = @ \cup {<<Head(dup.shortnames).shortname,
                                        Head(dup.configurations).key>>}]))
          ELSE Resume(Caught(dup, req[DupSlot].status))

(* The caller has the result; it may call again. *)
DuplicateVersionSettled ==
    /\ dup.pc \in {"returned", "thrown"}
    /\ dup' = [NoDup EXCEPT !.created = dup.created]
    /\ UNCHANGED <<tables, nextId, req, auth, caller>>

DuplicateStep ==
    \/ DuplicateVersionCreated
    \/ DuplicateVersionListed
    \/ DuplicateVersionAssociated
    \/ DuplicateVersionConfigurationsListed
    \/ DuplicateVersionConfigurationPosted
    \/ DuplicateVersionSettled

-----------------------------------------------------------------------------
(* Specifications *)

Init ==
    /\ shortnames = <<>>
    /\ versions = <<>>
    /\ shortnameVersions = <<>>
    /\ configurations = <<>>
    /\ nextId = 0
    /\ req = [r \in Reqs |-> NoReq]
    /\ dup = NoDup
    /\ users = <<>>
    /\ auth = NoAuth
    /\ caller = NoCaller

(* The handler steps of the shortname lambda, the shortname-first version  *)
(* lambda and the configuration lambda.                                    *)
HandlerStep(r) ==
    \/ CreateShortnameGet(r) \/ CreateShortnamePut(r)
    \/ CreateVersionGetShortname(r) \/ CreateVersionGetVersion(r)
    \/ CreateVersionPut(r)
    \/ CreateConfigurationGetShortname(r) \/ CreateConfigurationGetVersion(r)
    \/ CreateConfigurationQuery(r) \/ CreateConfigurationPut(r)
    \/ DeleteShortnameGet(r) \/ DeleteShortnameQueryVersions(r)
    \/ DeleteShortnameQueryConfigurations(r)
    \/ DeleteShortnameDeleteConfiguration(r)
    \/ DeleteShortnameDeleteVersion(r) \/ DeleteShortnameDeleteShortname(r)
    \/ DeleteVersionGet(r) \/ DeleteVersionQueryConfigurations(r)
    \/ DeleteVersionDeleteConfiguration(r) \/ DeleteVersionDeleteVersion(r)

(* One request at a time, DynamoDB calls may throw: cascading deletes.     *)
StartCascade(slugs, labels, keys) ==
    \/ \E s \in slugs : StartCreateShortname(1, s, "")
    \/ \E s \in slugs, v \in labels : StartCreateVersion(1, s, v, "", TRUE)
    \/ \E s \in slugs, v \in labels, k \in keys :
          StartCreateConfiguration(1, "client", s, v, k, "x", "") /\ UNCHANGED dup
    \/ \E s \in slugs : StartDeleteShortname(1, s)
    \/ \E s \in slugs, v \in labels : StartDeleteVersion(1, s, v)

NextCascade ==
    \/ StartCascade(PlainSlugs, PlainLabels, Keys)
    \/ HandlerStep(1)
    \/ StoreFault(1)
    \/ Complete(1)

SpecCascade == Init /\ [][NextCascade]_vars

-----------------------------------------------------------------------------
(* Orphans *)

VersionsOf(shortname) ==
    {k \in DOMAIN versions : versions[k].shortname = shortname}

ConfigurationsOf(shortname) ==
    {id \in DOMAIN configurations : configurations[id].shortname = shortname}

NoOrphan ==
    /\ \A k \in DOMAIN versions :
          versions[k].shortname # Undefined => Has(shortnames, versions[k].shortname)
    /\ \A id \in DOMAIN configurations :
          Has(versions, configurations[id].shortnameVersion)

Finished(r, op, status) ==
    /\ req[r].op = op
    /\ At(r, "done")
    /\ req[r].status = status

-----------------------------------------------------------------------------
-----------------------------------------------------------------------------
(* C9: in deleteShortname, a Version item is deleted only after every      *)
(* Configuration returned for its scope has been deleted by the request,    *)
(* and the Shortname item only after every Version returned by the index    *)
(* query has been deleted by it; this holds of runs that fail too.          *)
C9_Step(r) ==
    /\ (req[r].op = "deleteShortname" /\ req'[r] # req[r]
            /\ DOMAIN versions' # DOMAIN versions)
          => req[r].returnedConfigs \subseteq req[r].deletedConfigs
    /\ (req[r].op = "deleteShortname" /\ req'[r] # req[r]
            /\ DOMAIN shortnames' # DOMAIN shortnames)
          => req[r].returnedVersions \subseteq req[r].deletedVersions

(* C9, over every step of every request. *)
C9_ChildrenFirst == [][\A r \in Reqs : C9_Step(r)]_vars

C9_Witness ==
    \E r \in Reqs :
        /\ Finished(r, "deleteShortname", 500)
        /\ Cardinality(req[r].deletedVersions) >= 1
        /\ Cardinality(req[r].deletedConfigs) >= 2

-----------------------------------------------------------------------------
(* C10: when deleteShortname or deleteVersion has answered 500 (requests   *)
(* one at a time), no item is an orphan: every Version item's shortname is  *)
(* in Shortnames, every Configuration item's scope is in Versions, and a    *)
(* deleteShortname that had started deleting left the Shortname item.       *)
C10_NoOrphanOnFailure ==
    \A r \in Reqs :
        (Finished(r, "deleteShortname", 500) \/ Finished(r, "deleteVersion", 500)) =>
            /\ NoOrphan
            /\ (req[r].op = "deleteShortname"
                    /\ (req[r].deletedVersions # {} \/ req[r].deletedConfigs # {}))
                  => Has(shortnames, req[r].shortname)

C10_Witness ==
    \E r \in Reqs :
        /\ Finished(r, "deleteShortname", 500)
        /\ req[r].deletedVersions # {}
        /\ req[r].deletedConfigs # {}
        /\ ConfigurationsOf(req[r].shortname) # {}

-----------------------------------------------------------------------------
(* Requests interleaved at single DynamoDB calls, no call throws.          *)
RaceSlug == "s1"
RaceLabel == "v1"

StartRace(r) ==
    \/ StartCreateShortname(r, RaceSlug, "")
    \/ StartCreateVersion(r, RaceSlug, RaceLabel, "", TRUE)
    \/ \E k \in Keys, x \in Values :
          StartCreateConfiguration(r, "client", RaceSlug, RaceLabel, k, x, "")
            /\ UNCHANGED dup
    \/ StartDeleteShortname(r, RaceSlug)
    \/ StartDeleteVersion(r, RaceSlug, RaceLabel)

NextRace ==
    \E r \in Reqs :
        \/ StartRace(r)
        \/ HandlerStep(r)
        \/ Complete(r)

SpecRace == Init /\ [][NextRace]_vars

(* Two items of one scope carrying the same key. *)
DuplicateKey ==
    \E a, b \in DOMAIN configurations :
        /\ a # b
        /\ configurations[a].shortname = configurations[b].shortname
        /\ configurations[a].version = configurations[b].version
        /\ configurations[a].key = configurations[b].key

(* C3 as stated: in every reachable state no two Configuration items of    *)
(* one (shortname, version) scope have the same key, interleaved           *)
(* createConfiguration requests included.                                   *)
C3_KeyUnique == ~DuplicateKey

KeyCount(shortname, version, key) ==
    Cardinality({id \in DOMAIN configurations :
        /\ configurations[id].shortname = shortname
        /\ configurations[id].version = version
        /\ configurations[id].key = key})

(* C3 amended: a createConfiguration that stores its item without another  *)
(* request having stored one for the same scope and key since its          *)
(* existence query leaves exactly one item with that key in the scope.      *)
C3_Step(r) ==
    (At(r, "cc_put") /\ req'[r].status = 201 /\ ~req[r].overtaken)
        => KeyCount(req[r].shortname, req[r].version, req[r].key)' = 1

(* C3 amended, over every step of every request. *)
C3_KeyUniqueUnlessOvertaken == [][\A r \in Reqs : C3_Step(r)]_vars

C3_Witness ==
    /\ \E r \in Reqs : Finished(r, "createConfiguration", 409)
    /\ \E r \in Reqs : Finished(r, "createConfiguration", 201) /\ ~req[r].overtaken
    /\ ~DuplicateKey

-----------------------------------------------------------------------------
(* One request at a time over every string the handlers accept: neither    *)
(* lambda restricts the characters of a shortname or of a version label.   *)
ConfigIds == 1..MaxConfigs

(* Request bodies of PUT: any of the attributes, also those the handler   *)
(* does not read.                                                          *)
UpdateBodies ==
    {[key |-> "k2", shortname |-> "s2", version |-> "v1", configId |-> 0,
      shortnameVersion |-> "s2:v1", value |-> "y", description |-> Undefined],
     [key |-> Undefined, shortname |-> Undefined, version |-> Undefined,
      configId |-> Undefined, shortnameVersion |-> Undefined,
      value |-> Undefined, description |-> "d"]}

StartConfigOps(slugs, labels) ==
    \E s \in slugs, v \in labels, id \in ConfigIds :
        \/ StartGetConfiguration(1, s, v, id)
        \/ \E updateBody \in UpdateBodies :
              StartUpdateConfiguration(1, s, v, id, updateBody)
        \/ StartDeleteConfiguration(1, s, v, id)
        \/ StartGetAllConfigurations(1, "client", s, v) /\ UNCHANGED dup

NextScope ==
    \/ StartCascade(AnySlugs, AnyLabels, {"k1"})
    \/ StartConfigOps(AnySlugs, AnyLabels)
    \/ HandlerStep(1)
    \/ ConfigStep(1)
    \/ Complete(1)

SpecScope == Init /\ [][NextScope]_vars

(* The request addresses a stored item by id under another pair.           *)
CrossScope(r) ==
    /\ Has(configurations, req[r].configId)
    /\ <<configurations[req[r].configId].shortname,
         configurations[req[r].configId].version>>
            # <<req[r].shortname, req[r].version>>

(* C4 as stated: getConfiguration, updateConfiguration and                 *)
(* deleteConfiguration called with the configId of an item stored under    *)
(* another (shortname, version) pair answer 404 at their ownership check   *)
(* and so never return, modify or delete the item.                         *)
C4_Step(r) ==
    ((At(r, "gc_get") \/ At(r, "uc_get") \/ At(r, "dc_get"))
        /\ req'[r] # req[r] /\ CrossScope(r))
      => (req'[r].pc = "done" /\ req'[r].status = 404)

(* C4 as stated, over every step of every request. *)
C4_ScopeIsolation == [][\A r \in Reqs : C4_Step(r)]_vars

-----------------------------------------------------------------------------
(* Duplication of SourceLabel into DestLabel by one client, after any      *)
(* sequence of requests that build the source; DynamoDB calls may throw.   *)
SourceLabel == "v1"
DestLabel == "v2"

StartSetup(slugs, keys) ==
    /\ dup.pc = "idle"
    /\ UNCHANGED dup
    /\ \/ \E v \in PlainLabels : StartTopCreateVersion(1, "client", v, "", TRUE)
       \/ \E s \in slugs :
             StartAddShortnameToVersion(1, "client", SourceLabel, s, "")
       \/ \E s \in slugs, v \in PlainLabels :
             StartCreateVersion(1, s, v, "", TRUE)
       \/ \E s \in slugs, k \in keys :
             StartCreateConfiguration(1, "client", s, SourceLabel, k, "x", "d")

DupBackendStep(r) ==
    \/ VersionFirstStep(r)
    \/ CreateVersionGetShortname(r) \/ CreateVersionGetVersion(r)
    \/ CreateVersionPut(r)
    \/ CreateConfigurationGetShortname(r) \/ CreateConfigurationGetVersion(r)
    \/ CreateConfigurationQuery(r) \/ CreateConfigurationPut(r)
    \/ GetAllConfigurationsQuery(r)

NextDup ==
    \/ StartSetup(PlainSlugs, Keys)
    \/ StartDuplicateVersion(SourceLabel, DestLabel)
    \/ DuplicateStep
    \/ DupBackendStep(1)
    \/ StoreFault(1)
    \/ Complete(1)

SpecDup == Init /\ [][NextDup]_vars

(* Configuration items stored under (shortname, version). *)
ScopeConfigs(shortname, version) ==
    {configurations[id] : id \in {x \in DOMAIN configurations :
        /\ configurations[x].shortname = shortname
        /\ configurations[x].version = version}}

IsCopyOf(copy, original) ==
    /\ copy.key = original.key
    /\ copy.value = original.value
    /\ copy.description = original.description
    /\ copy.configId # original.configId

(* Listing (shortname, dest) returns exactly one copy per item listed      *)
(* under (shortname, source).                                              *)
Mirrors(shortname, source, dest) ==
    /\ \A original \in ScopeConfigs(shortname, source) :
          Cardinality({copy \in ScopeConfigs(shortname, dest) :
                          IsCopyOf(copy, original)}) = 1
    /\ Cardinality(ScopeConfigs(shortname, dest))
          = Cardinality(ScopeConfigs(shortname, source))

AssociatedShortnames(version) ==
    {shortnameVersions[k].shortname :
        k \in {x \in DOMAIN shortnameVersions :
                  shortnameVersions[x].version = version}}

(* C1 as stated: when duplicateVersion(source, dest) has returned and no   *)
(* DynamoDB call of its requests threw, every shortname associated with    *)
(* the source lists under (shortname, dest) exactly one configuration per  *)
(* configuration under (shortname, source), same key, value and            *)
(* description, different configId.                                        *)
C1_CopyComplete ==
    (dup.pc = "returned" /\ ~dup.faulted)
        => \A s \in AssociatedShortnames(dup.sourceVersion) :
              Mirrors(s, dup.sourceVersion, dup.version)

(* C5 as stated: duplicateVersion either fails before the destination      *)
(* Version is created (with 409 unless a DynamoDB call threw) or reports    *)
(* success with the destination created; it never reports a failure after  *)
(* it has created the destination.                                         *)
C5_TwoOutcomes ==
    /\ dup.pc = "thrown" =>
          /\ dup.newVersion = <<>>
          /\ ~dup.faulted => dup.error = 409
    /\ dup.pc = "returned" =>
          /\ dup.newVersion # <<>>
          /\ Has(versions, dup.version)

(* C5 amended: a failure is reported only before any shortname is copied:  *)
(* either the destination was not created (409 unless a DynamoDB call      *)
(* threw), or it was created and listing the shortnames of the source      *)
(* failed; success is reported with the destination created.               *)
C5_Outcomes ==
    /\ dup.pc = "thrown" =>
          /\ dup.order = <<>> /\ dup.posted = {} /\ dup.failed = {}
          /\ ~dup.faulted => (dup.error = 409 /\ dup.newVersion = <<>>)
    /\ dup.pc = "returned" =>
          /\ dup.newVersion # <<>>
          /\ Has(versions, dup.version)

C5_Witness == dup.pc = "thrown" /\ dup.newVersion # <<>> /\ dup.error = 500

(* C6: in a duplicateVersion call whose destination label an earlier call  *)
(* created, the creation request is the only request sent: it answers 409  *)
(* (unless a DynamoDB call throws), the call fails with that answer, and   *)
(* no step of the call changes any table.                                  *)
C6_Step ==
    (/\ dup.pc = "w_createVersion"
     /\ dup.version \in dup.created
     /\ (dup' # dup \/ req'[DupSlot] # req[DupSlot]))
      => /\ UNCHANGED tables
         /\ dup'.pc \in {"w_createVersion", "thrown"}
         /\ (dup'.pc = "thrown" /\ ~dup'.faulted) => dup'.error = 409

(* C6, over every step of the call. *)
C6_SecondCallConflict == [][C6_Step]_vars

C6_Witness ==
    /\ dup.pc = "thrown" /\ dup.error = 409
    /\ dup.version \in dup.created
    /\ ScopeConfigs("s1", dup.version) # {}

InOrder(s) == \E i \in 1..Len(dup.order) : dup.order[i] = s

(* C7: once a shortname's copy has failed the call no longer raises, and   *)
(* when it returns every shortname listed for the source has been          *)
(* processed and the result is the destination Version createVersion       *)
(* answered.                                                               *)
C7_BestEffort ==
    /\ dup.failed # {} => dup.pc # "thrown"
    /\ dup.pc = "returned" =>
          /\ \A s \in dup.listed : InOrder(s)
          /\ dup.newVersion = <<TopVersionItem(dup.version, "", TRUE)>>

C7_Witness ==
    /\ dup.pc = "returned"
    /\ \E i, j \in 1..Len(dup.order) :
          /\ i < j
          /\ dup.order[i] \in dup.failed
          /\ dup.order[j] \notin dup.failed
          /\ \E k \in Keys : <<dup.order[j], k>> \in dup.posted

-----------------------------------------------------------------------------
(* Duplication while another client associates shortnames with the         *)
(* destination; no DynamoDB call throws.                                   *)
OtherSlot == 2
RaceSlugs == {"s1"}
RaceKeys == {"k1"}

StartOther ==
    /\ \E s \in RaceSlugs :
          StartAddShortnameToVersion(OtherSlot, "client", DestLabel, s, "")
    /\ UNCHANGED dup

NextDupRace ==
    \/ StartSetup(RaceSlugs, RaceKeys)
    \/ StartDuplicateVersion(SourceLabel, DestLabel)
    \/ DuplicateStep
    \/ StartOther
    \/ \E r \in Reqs : DupBackendStep(r) \/ Complete(r)

SpecDupRace == Init /\ [][NextDupRace]_vars

(* C8 as stated: when the association request of a shortname answers 409,  *)
(* duplicateVersion goes on to list that shortname's configurations under  *)
(* the source in order to copy them.                                       *)
C8_Step ==
    (/\ dup.pc = "w_createShortnameInVersion"
     /\ Awaited
     /\ req[DupSlot].status = 409
     /\ dup' # dup)
      => /\ dup'.pc = "w_get"
         /\ req'[DupSlot].op = "getAllConfigurations"
         /\ req'[DupSlot].shortname = req[DupSlot].shortname

(* C8 as stated, over every step of the call. *)
C8_ConflictTolerated == [][C8_Step]_vars

-----------------------------------------------------------------------------
(* One request at a time over both layouts of a version (top-level item    *)
(* with associations, versionId item), DynamoDB calls may throw: the       *)
(* cascading deletes of the shortname lambda and of the version-first      *)
(* routes.                                                                 *)
DeleteKeys == {"k1"}

StartDelete ==
    \/ \E v \in PlainLabels : StartTopCreateVersion(1, "client", v, "", TRUE)
          /\ UNCHANGED dup
    \/ \E s \in PlainSlugs, v \in PlainLabels :
          StartAddShortnameToVersion(1, "client", v, s, "") /\ UNCHANGED dup
    \/ \E s \in PlainSlugs, v \in PlainLabels : StartCreateVersion(1, s, v, "", TRUE)
    \/ \E s \in PlainSlugs, v \in PlainLabels, k \in DeleteKeys :
          StartCreateConfiguration(1, "client", s, v, k, "x", "") /\ UNCHANGED dup
    \/ \E s \in PlainSlugs : StartDeleteShortname(1, s)
    \/ \E v \in PlainLabels : StartTopDeleteVersion(1, v)

NextDelete ==
    \/ StartDelete
    \/ TopCreateVersionGet(1) \/ TopCreateVersionPut(1)
    \/ AddShortnameToVersionGetVersion(1) \/ AddShortnameToVersionGetShortname(1)
    \/ AddShortnameToVersionPutShortname(1)
    \/ AddShortnameToVersionGetAssociation(1)
    \/ AddShortnameToVersionPutAssociation(1)
    \/ CreateVersionGetShortname(1) \/ CreateVersionGetVersion(1)
    \/ CreateVersionPut(1)
    \/ CreateConfigurationGetShortname(1) \/ CreateConfigurationGetVersion(1)
    \/ CreateConfigurationQuery(1) \/ CreateConfigurationPut(1)
    \/ DeleteShortnameGet(1) \/ DeleteShortnameQueryVersions(1)
    \/ DeleteShortnameQueryConfigurations(1)
    \/ DeleteShortnameDeleteConfiguration(1)
    \/ DeleteShortnameDeleteVersion(1) \/ DeleteShortnameDeleteShortname(1)
    \/ TopDeleteVersionStep(1)
    \/ StoreFault(1)
    \/ Complete(1)

SpecDelete == Init /\ [][NextDelete]_vars

(* The item the cascading delete r is to remove is still stored. *)
TargetStored(r) ==
    \/ req[r].op = "deleteShortname" /\ Has(shortnames, req[r].shortname)
    \/ req[r].op = "topDeleteVersion" /\ Has(versions, req[r].version)

(* C11: a cascading delete (deleteShortname, version-first deleteVersion)  *)
(* that ends without having removed its target ends at a step that         *)
(* deletes nothing and restores nothing, answers 500, and once it has      *)
(* answered no further item is deleted.                                    *)
C11_Step(r) ==
    /\ (Running(r) /\ req'[r].pc = "done" /\ TargetStored(r)')
          => (req'[r].status = 500 /\ UNCHANGED tables)
    /\ (At(r, "done") /\ req[r].op \in {"deleteShortname", "topDeleteVersion"})
          => UNCHANGED tables

(* C11, over every step of every request. *)
C11_ForwardOnly == [][\A r \in Reqs : C11_Step(r)]_vars

C11_Witness ==
    \E r \in Reqs :
        /\ Finished(r, "topDeleteVersion", 500)
        /\ req[r].deletedConfigs # {}
        /\ req[r].deletedVersions # {}
        /\ \A id \in req[r].deletedConfigs : ~Has(configurations, id)
        /\ \A k \in req[r].deletedVersions : ~Has(shortnameVersions, k)
        /\ Has(versions, req[r].version)

-----------------------------------------------------------------------------
(* One request at a time, no DynamoDB call throws: the create operations   *)
(* of shortnames and versions over every body the handlers pass on.        *)
CreateLabel == "v1"

StartCreate ==
    \E s \in PlainSlugs, d \in Descriptions :
        \/ StartCreateShortname(1, s, d)
        \/ \E a \in BOOLEAN : StartCreateVersion(1, s, CreateLabel, d, a)
        \/ \E a \in BOOLEAN : StartCreateVersionForShortname(1, s, CreateLabel, d, a)

NextCreate ==
    \/ StartCreate
    \/ CreateShortnameGet(1) \/ CreateShortnamePut(1)
    \/ CreateVersionGetShortname(1) \/ CreateVersionGetVersion(1)
    \/ CreateVersionPut(1)
    \/ CreateVersionForShortnameStep(1)
    \/ Complete(1)

SpecCreate == Init /\ [][NextCreate]_vars

(* C12: a createShortname request (requests one at a time) answers 201 and *)
(* stores its item when no Shortname with the slug is stored, and answers  *)
(* 409 and leaves the stored item unchanged when one is.                    *)
C12_Step(r) ==
    (req[r].op = "createShortname" /\ Running(r) /\ req'[r].pc = "done")
      => IF Has(shortnames, req[r].shortname)
            THEN req'[r].status = 409 /\ UNCHANGED tables
            ELSE /\ req'[r].status = 201
                 /\ shortnames' = Put(shortnames, req[r].shortname,
                        ShortnameItem(req[r].shortname, req[r].description))

(* C12, over every step of every request. *)
C12_CreateTwice == [][\A r \in Reqs : C12_Step(r)]_vars

C12_Witness ==
    \E r \in Reqs :
        /\ Finished(r, "createShortname", 409)
        /\ Has(shortnames, req[r].shortname)
        /\ shortnames[req[r].shortname].description # req[r].description

(* C13: createVersion and createVersionForShortname for a shortname that   *)
(* is not stored answer 404 at their first store call, before any version  *)
(* lookup, whatever description and isActive the body carries, and write   *)
(* nothing.                                                                *)
C13_Step(r) ==
    (/\ At(r, "cv_getShortname") \/ At(r, "cvs_getShortname")
     /\ req'[r] # req[r]
     /\ ~Has(shortnames, req[r].shortname))
      => /\ req'[r].pc = "done"
         /\ req'[r].status = 404
         /\ UNCHANGED tables

-----------------------------------------------------------------------------
(* The step r takes stores exactly one new Configuration item, that of the *)
(* request, under an id no stored item has.                                *)
StoresOneNew(r) ==
    \E id \in DOMAIN configurations' \ DOMAIN configurations :
        /\ DOMAIN configurations' = DOMAIN configurations \cup {id}
        /\ \A old \in DOMAIN configurations :
              configurations'[old] = configurations[old]
        /\ configurations'[id] =
              ConfigItem(id, req[r].shortname, req[r].version, req[r].key,
                         req[r].value, req[r].description)
        /\ configurations'[id].shortnameVersion
              = req[r].shortname \o ":" \o req[r].version
        /\ UNCHANGED <<shortnames, versions, shortnameVersions>>

(* C14: a createConfiguration request (requests one at a time) answers, in *)
(* this order, 404 when the shortname is not stored, 404 when no Version   *)
(* is stored at slug:label, 409 when the scope holds the key, each time    *)
(* storing nothing, and otherwise 201 having stored exactly one new item   *)
(* with a fresh id and scope key slug:label; a throwing DynamoDB call      *)
(* answers 500 and stores nothing.                                         *)
C14_Step(r) ==
    (req[r].op = "createConfiguration" /\ Running(r) /\ req'[r].pc = "done")
      => IF req'[r].status = 500
            THEN UNCHANGED tables
         ELSE IF ~Has(shortnames, req[r].shortname)
            THEN req'[r].status = 404 /\ UNCHANGED tables
         ELSE IF ~Has(versions, req[r].shortname \o ":" \o req[r].version)
            THEN req'[r].status = 404 /\ UNCHANGED tables
         ELSE IF \E id \in DOMAIN configurations :
                    /\ configurations[id].shortnameVersion
                          = req[r].shortname \o ":" \o req[r].version
                    /\ configurations[id].key = req[r].key
            THEN req'[r].status = 409 /\ UNCHANGED tables
         ELSE req'[r].status = 201 /\ StoresOneNew(r)

(* C14, over every step of every request. *)
C14_CheckOrder == [][\A r \in Reqs : C14_Step(r)]_vars

C14_Witness ==
    /\ \E r \in Reqs : Finished(r, "createConfiguration", 201)
                          /\ Cardinality(DOMAIN configurations) >= 2
    /\ nextId = MaxConfigs

-----------------------------------------------------------------------------
(* C15: no step of an updateConfiguration request (requests one at a time) *)
(* adds or removes a Configuration item or changes the configId, key,      *)
(* scope key, shortname or version of one, whatever attributes the body    *)
(* carries; it changes no other table.                                     *)
C15_Step(r) ==
    (req[r].op = "updateConfiguration" /\ req'[r] # req[r])
      => /\ DOMAIN configurations' = DOMAIN configurations
         /\ \A id \in DOMAIN configurations :
               /\ configurations'[id].configId = configurations[id].configId
               /\ configurations'[id].key = configurations[id].key
               /\ configurations'[id].shortnameVersion
                     = configurations[id].shortnameVersion
               /\ configurations'[id].shortname = configurations[id].shortname
               /\ configurations'[id].version = configurations[id].version
               /\ id # req[r].configId => configurations'[id] = configurations[id]
         /\ UNCHANGED <<shortnames, versions, shortnameVersions>>

-----------------------------------------------------------------------------
(* The (shortname, version) pair an item was stored under.                 *)
PairOf(item) == <<item.shortname, item.version>>

(* C16 as stated: a deleteVersion(slug, label) request removes or changes  *)
(* no Shortname, no Version of another (shortname, version) pair and no    *)
(* Configuration of another pair, and when it answers 200 the Version and  *)
(* every Configuration of the pair (slug, label) are gone.                 *)
C16_Step(r) ==
    (req[r].op = "deleteVersion" /\ req'[r] # req[r])
      => LET pair == <<req[r].shortname, req[r].version>> IN
         /\ shortnames' = shortnames
         /\ \A id \in DOMAIN versions :
               PairOf(versions[id]) # pair
                  => Has(versions', id) /\ versions'[id] = versions[id]
         /\ \A id \in DOMAIN configurations :
               PairOf(configurations[id]) # pair
                  => Has(configurations', id)
                        /\ configurations'[id] = configurations[id]
         /\ (req'[r].pc = "done" /\ req'[r].status = 200)
               => /\ \A id \in DOMAIN versions' : PairOf(versions'[id]) # pair
                  /\ \A id \in DOMAIN configurations' :
                        PairOf(configurations'[id]) # pair

(* C16 as stated, over every step of every request. *)
C16_DeleteVersionFrame == [][\A r \in Reqs : C16_Step(r)]_vars

-----------------------------------------------------------------------------
(* The lambda handlers: authorization, body parsing, required fields and   *)
(* dispatch, all before the first await.                                   *)

Tokens == {"valid", "expired", "forged", ""}

(* jwt.verify(token, secretKey, {algorithms: ['HS256']}) *)
JwtVerify(token) ==
    CASE token = "valid" -> "decoded"
      [] token = "expired" -> "TokenExpiredError"
      [] OTHER -> "JsonWebTokenError"

(* verifyToken: returns the decoded token or throws. *)
VerifyToken(token) ==
    IF JwtVerify(token) = "decoded" THEN "decoded" ELSE "throws"

(* Mutant: an expired token is still decoded. *)
Authorized_IgnoreExpiry(authHeader) ==
    /\ Len(authHeader) >= 2
    /\ authHeader[1] = "Bearer"
    /\ JwtVerify(authHeader[2]) \in {"decoded", "TokenExpiredError"}

(* `authHeader && authHeader.startsWith('Bearer ')` and verifyToken of     *)
(* authHeader.split(' ')[1] does not throw.                                *)
Authorized(authHeader) ==
    /\ Len(authHeader) >= 2
    /\ authHeader[1] = "Bearer"
    /\ VerifyToken(authHeader[2]) = "decoded"

Headers ==
    {<<>>, <<"Bearer">>, <<"Basic", "valid">>}
       \cup {<<"Bearer", token>> : token \in Tokens}

AllFields == {"shortname", "version", "key", "value", "description", "isActive"}

MalformedBody == [EmptyBody EXCEPT !.wellFormed = FALSE]

Bodies ==
    {Body(AllFields, "x", "d"),
     Body({"shortname", "version", "key"}, Undefined, Undefined),
     Body(AllFields, Null, Null),
     EmptyBody,
     MalformedBody}

(* body.name of the parsed body *)
Field(body, name) == IF name \in body.given THEN body[name] ELSE Undefined

(* `!x` for a string-valued attribute *)
Falsy(x) == x \in {Undefined, Null, ""}

(* `x || ''` *)
OrEmpty(x) == IF Falsy(x) THEN "" ELSE x

(* `body.isActive || false` *)
IsActiveOrFalse(body) == "isActive" \in body.given /\ body.isActive

(* The invocation arrives. *)
Receive(r, event) ==
    /\ req[r] = NoReq
    /\ req' = [req EXCEPT ![r].event = event]
    /\ UNCHANGED <<tables, nextId, dup, auth, caller>>

(* The handler returns without calling a manager function. *)
Reject(r, status) ==
    /\ req' = [req EXCEPT ![r].op = "handler", ![r].pc = "done",
                 ![r].from = "client", ![r].status = status]
    /\ UNCHANGED <<tables, nextId, dup, auth, caller>>

(* JSON.parse throws inside the handler's try: its catch answers 500.      *)
ParseFailure == 500

(* Shortname lambda, POST /api/shortnames *)
ShortnameHandler(r) ==
    /\ Idle(r)
    /\ LET body == req[r].event.body IN
       IF ~Authorized(req[r].event.authorization) THEN Reject(r, 401)
       ELSE IF ~body.wellFormed THEN Reject(r, ParseFailure)
       ELSE IF Falsy(Field(body, "shortname")) THEN Reject(r, 400)
       ELSE StartCreateShortname(r, body.shortname,
                                 OrEmpty(Field(body, "description")))

(* Version lambda, POST /api/versions and                                  *)
(* POST /api/shortnames/{shortname}/versions (the latter in the            *)
(* association layout and in the versionId layout).                        *)
VersionHandler(r) ==
    /\ Idle(r)
    /\ LET body == req[r].event.body IN
       IF ~Authorized(req[r].event.authorization) THEN Reject(r, 401)
       ELSE IF ~body.wellFormed THEN Reject(r, ParseFailure)
       ELSE IF Falsy(Field(body, "version")) THEN Reject(r, 400)
       ELSE \/ /\ StartTopCreateVersion(r, "client", body.version,
                      OrEmpty(Field(body, "description")), IsActiveOrFalse(body))
               /\ UNCHANGED dup
            \/ \E shortname \in PlainSlugs :
                 \/ StartCreateVersionForShortname(r, shortname, body.version,
                      OrEmpty(Field(body, "description")), IsActiveOrFalse(body))
                 \/ StartCreateVersion(r, shortname, body.version,
                      OrEmpty(Field(body, "description")), IsActiveOrFalse(body))

(* Configuration lambda, POST and PUT under                                *)
(* /api/shortnames/{shortname}/versions/{version}/configurations           *)
ConfigurationHandler(r) ==
    /\ Idle(r)
    /\ LET body == req[r].event.body IN
       IF ~Authorized(req[r].event.authorization) THEN Reject(r, 401)
       ELSE IF ~body.wellFormed THEN Reject(r, ParseFailure)
       ELSE \/ IF Falsy(Field(body, "key")) THEN Reject(r, 400)
               ELSE /\ \E shortname \in PlainSlugs :
                         StartCreateConfiguration(r, "client", shortname, "v1",
                             body.key, Field(body, "value"),
                             OrEmpty(Field(body, "description")))
                    /\ UNCHANGED dup
            \/ \E configId \in ConfigIds :
                 StartUpdateConfiguration(r, "s1", "v1", configId,
                     [value |-> Field(body, "value"),
                      description |-> Field(body, "description")])

NextHandler ==
    \/ \E authorization \in Headers, body \in Bodies :
          Receive(1, [NoEvent EXCEPT !.authorization = authorization,
                                     !.body = body])
    \/ ShortnameHandler(1)
    \/ VersionHandler(1)
    \/ ConfigurationHandler(1)
    \/ CreateShortnameGet(1) \/ CreateShortnamePut(1)
    \/ TopCreateVersionGet(1) \/ TopCreateVersionPut(1)
    \/ CreateVersionForShortnameStep(1)
    \/ CreateVersionGetShortname(1) \/ CreateVersionGetVersion(1)
    \/ CreateVersionPut(1)
    \/ CreateConfigurationGetShortname(1) \/ CreateConfigurationGetVersion(1)
    \/ CreateConfigurationQuery(1) \/ CreateConfigurationPut(1)
    \/ UpdateConfigurationGet(1) \/ UpdateConfigurationUpdate(1)
    \/ Complete(1)

SpecHandler == Init /\ [][NextHandler]_vars

(* C17: an invocation whose Authorization header is missing, is not        *)
(* 'Bearer <token>' or carries an invalid or expired token takes one step, *)
(* to the answer 401, without starting a manager function and so without   *)
(* any store call; the tables are unchanged.                               *)
C17_Step(r) ==
    (req[r].event.authorization # <<"Bearer", "valid">> /\ req'[r] # req[r])
      => /\ UNCHANGED <<tables, nextId>>
         /\ \/ /\ Idle(r)
               /\ req'[r].op = "handler"
               /\ req'[r].pc = "done"
               /\ req'[r].status = 401
            \/ At(r, "done") /\ req[r].status = 401 /\ req'[r] = NoReq

-----------------------------------------------------------------------------
(* The attributes a create operation writes, by table. *)
ShortnameAttributes == {"shortname", "description"}
VersionAttributes == {"version", "description"}
AssociationAttributes == {"shortnameVersionId", "shortname", "version", "description"}
ConfigAttributes ==
    {"shortnameVersion", "shortname", "version", "key", "value", "description"}

CreateOps ==
    {"createShortname", "createVersion", "createVersionForShortname",
     "createConfiguration"}

Filled(item, names) == \A n \in names : item[n] \notin {Undefined, Null}

(* C19 as stated: every item a create operation stores, for a body that    *)
(* passed the handler's required-field checks, carries each of its         *)
(* attributes with a value that is not null.                               *)
C19_Step(r) ==
    (req[r].op \in CreateOps /\ req'[r] # req[r])
      => /\ \A k \in DOMAIN shortnames' \ DOMAIN shortnames :
               Filled(shortnames'[k], ShortnameAttributes)
         /\ \A k \in DOMAIN versions' \ DOMAIN versions :
               Filled(versions'[k], VersionAttributes)
         /\ \A k \in DOMAIN shortnameVersions' \ DOMAIN shortnameVersions :
               Filled(shortnameVersions'[k], AssociationAttributes)
         /\ \A k \in DOMAIN configurations' \ DOMAIN configurations :
               Filled(configurations'[k], ConfigAttributes)

(* C19 as stated, over every step of every request. *)
C19_NoNullAttribute == [][\A r \in Reqs : C19_Step(r)]_vars

(* C20 as stated: an authorized create or update invocation whose body     *)
(* does not parse is answered 400 and the tables are unchanged.            *)
C20_Step(r) ==
    (/\ Idle(r)
     /\ req[r].event.authorization = <<"Bearer", "valid">>
     /\ ~req[r].event.body.wellFormed
     /\ req'[r] # req[r])
      => /\ req'[r].pc = "done"
         /\ req'[r].status = 400
         /\ UNCHANGED tables

(* C20 as stated, over every step of every request. *)
C20_MalformedIsBadRequest == [][\A r \in Reqs : C20_Step(r)]_vars

-----------------------------------------------------------------------------
(* The operations of the version lambda and of the configuration lambda.   *)
VersionManagerOps ==
    {"createVersion", "createVersionForShortname", "addShortnameToVersion",
     "getVersionShortnames", "deleteVersion", "topDeleteVersion"}

ConfigurationManagerOps ==
    {"createConfiguration", "getAllConfigurations", "getConfiguration",
     "updateConfiguration", "deleteConfiguration"}

(* C18 as stated: no step of a version lambda operation creates or changes *)
(* an item of the Shortnames table, and no step of a configuration lambda  *)
(* operation writes to the Shortnames, Versions or association tables.     *)
C18_Step(r) ==
    (req'[r] # req[r])
      => /\ req[r].op \in VersionManagerOps => shortnames' = shortnames
         /\ req[r].op \in ConfigurationManagerOps
               => UNCHANGED <<shortnames, versions, shortnameVersions>>

(* C18 as stated, over every step of every request. *)
C18_OneWriterPerTable == [][\A r \in Reqs : C18_Step(r)]_vars

-----------------------------------------------------------------------------
(* Updates of stored versions and configurations, requests one after the   *)
(* other, over bodies that carry any subset of the updatable attributes.   *)
UpdateSlug == "s1"
UpdateLabels == {"v1", "v2"}

VersionUpdateBodies ==
    {Body({}, Undefined, Undefined),
     Body({"description"}, Undefined, "e"),
     Body({"isActive"}, Undefined, Undefined),
     [Body({"isActive", "description"}, Undefined, "e") EXCEPT !.isActive = FALSE]}

ConfigUpdateBodies ==
    {[value |-> Undefined, description |-> Undefined],
     [value |-> "y", description |-> Undefined],
     [value |-> Undefined, description |-> "e"],
     [value |-> "y", description |-> "e"]}

StartUpdate ==
    \/ StartCreateShortname(1, UpdateSlug, "")
    \/ \E d \in Descriptions, a \in BOOLEAN :
          StartCreateVersion(1, UpdateSlug, "v1", d, a)
    \/ /\ \E d \in Descriptions :
            StartCreateConfiguration(1, "client", UpdateSlug, "v1", "k1", "x", d)
       /\ UNCHANGED dup
    \/ \E v \in UpdateLabels, updateBody \in VersionUpdateBodies :
          StartUpdateVersion(1, UpdateSlug, v, updateBody)
    \/ \E v \in UpdateLabels, id \in ConfigIds, updateBody \in ConfigUpdateBodies :
          StartUpdateConfiguration(1, UpdateSlug, v, id, updateBody)

NextUpdate ==
    \/ StartUpdate
    \/ CreateShortnameGet(1) \/ CreateShortnamePut(1)
    \/ CreateVersionGetShortname(1) \/ CreateVersionGetVersion(1)
    \/ CreateVersionPut(1)
    \/ CreateConfigurationGetShortname(1) \/ CreateConfigurationGetVersion(1)
    \/ CreateConfigurationQuery(1) \/ CreateConfigurationPut(1)
    \/ UpdateVersionGet(1) \/ UpdateVersionUpdate(1)
    \/ UpdateConfigurationGet(1) \/ UpdateConfigurationUpdate(1)
    \/ Complete(1)

SpecUpdate == Init /\ [][NextUpdate]_vars

(* The attributes of the addressed record that the request supplies.       *)
Supplied(r) ==
    IF req[r].op = "updateVersion"
       THEN req[r].event.body.given \cap {"description", "isActive"}
       ELSE {a \in {"value", "description"} : req[r][a] # Undefined}

(* C21: every step of an updateVersion or updateConfiguration request      *)
(* (requests one at a time) adds and removes no record, changes no record  *)
(* but the addressed one and on that one no attribute the request did not  *)
(* supply; a request for an absent record is answered 404 at its get, and  *)
(* a step that answers 404 writes nothing.                                 *)
C21_Step(r) ==
    (req[r].op \in {"updateVersion", "updateConfiguration"} /\ req'[r] # req[r])
      => /\ UNCHANGED <<shortnames, shortnameVersions>>
         /\ DOMAIN versions' = DOMAIN versions
         /\ DOMAIN configurations' = DOMAIN configurations
         /\ \A id \in DOMAIN versions :
               \A a \in DOMAIN versions[id] :
                  (req[r].op = "updateVersion"
                     /\ id = ScopeKey(req[r].shortname, req[r].version)
                     /\ a \in Supplied(r))
                    \/ versions'[id][a] = versions[id][a]
         /\ \A id \in DOMAIN configurations :
               \A a \in DOMAIN configurations[id] :
                  (req[r].op = "updateConfiguration" /\ id = req[r].configId
                     /\ a \in Supplied(r))
                    \/ configurations'[id][a] = configurations[id][a]
         /\ (At(r, "uv_get")
               /\ ~Has(versions, ScopeKey(req[r].shortname, req[r].version)))
              => req'[r].pc = "done" /\ req'[r].status = 404
         /\ (At(r, "uc_get") /\ ~Has(configurations, req[r].configId))
              => req'[r].pc = "done" /\ req'[r].status = 404
         /\ req'[r].status = 404 => UNCHANGED tables

(* C21, over every step of every request. *)
C21_PartialUpdate == [][\A r \in Reqs : C21_Step(r)]_vars

C21_Witness ==
    \E r \in Reqs :
        /\ Finished(r, "updateVersion", 200)
        /\ req[r].event.body.given = {"isActive"}
        /\ versions[ScopeKey(req[r].shortname, req[r].version)].description = "d"
        /\ versions[ScopeKey(req[r].shortname, req[r].version)].isActive
        /\ \E id \in DOMAIN configurations :
              /\ configurations[id].value = "x"
              /\ configurations[id].description = "e"

-----------------------------------------------------------------------------
(* Two clients create the same shortname and the same version with         *)
(* different attributes, interleaved at single DynamoDB calls; no call     *)
(* throws.                                                                 *)
StartCreateRace(r) ==
    \E d \in Descriptions :
        \/ StartCreateShortname(r, RaceSlug, d)
        \/ \E a \in BOOLEAN : StartCreateVersion(r, RaceSlug, RaceLabel, d, a)

NextCreateRace ==
    \E r \in Reqs :
        \/ StartCreateRace(r)
        \/ CreateShortnameGet(r) \/ CreateShortnamePut(r)
        \/ CreateVersionGetShortname(r) \/ CreateVersionGetVersion(r)
        \/ CreateVersionPut(r)
        \/ Complete(r)

SpecCreateRace == Init /\ [][NextCreateRace]_vars

(* C22: a createShortname or createVersion request that has passed its     *)
(* existence check answers 201 at its put, whatever was stored under the    *)
(* key since; the table then holds under that key the item of this request *)
(* alone, every other key as before.                                       *)
C22_Step(r) ==
    /\ (At(r, "cs_put") /\ req'[r] # req[r])
         => /\ req'[r].status = 201
            /\ DOMAIN shortnames' = DOMAIN shortnames \cup {req[r].shortname}
            /\ shortnames'[req[r].shortname].description = req[r].description
            /\ \A k \in DOMAIN shortnames \ {req[r].shortname} :
                  shortnames'[k] = shortnames[k]
    /\ (At(r, "cv_put") /\ req'[r] # req[r])
         => LET id == ScopeKey(req[r].shortname, req[r].version) IN
            /\ req'[r].status = 201
            /\ DOMAIN versions' = DOMAIN versions \cup {id}
            /\ versions'[id].description = req[r].description
            /\ versions'[id].isActive = req[r].isActive
            /\ \A k \in DOMAIN versions \ {id} : versions'[k] = versions[k]

(* C22, over every step of every request. *)
C22_LastWriterWins == [][\A r \in Reqs : C22_Step(r)]_vars

C22_Witness ==
    /\ Finished(1, "createShortname", 201)
    /\ Finished(2, "createShortname", 201)
    /\ req[1].shortname = req[2].shortname
    /\ req[1].description # req[2].description
    /\ Cardinality(DOMAIN shortnames) = 1

-----------------------------------------------------------------------------
(* Register lambda *)

AdminKey == "1234"                        \* process.env.ADMIN_KEY
AllowedUserTypes == {"admin", "user"}     \* config/user-types.json
MinPasswordLength == 8

(* /^[^\s@]+@[^\s@]+\.[^\s@]+$/ on the characters of the email *)
EmailMatches(email) ==
    \E i \in 2..Len(email) :
        /\ email[i] = "@"
        /\ \A k \in 1..Len(email) : email[k] # " " /\ (email[k] = "@" => k = i)
        /\ \E j \in (i + 2)..(Len(email) - 1) : email[j] = "."

UserItem(userId, registration) ==
    [userId |-> userId, email |-> registration.email,
     userType |-> registration.userType]

(* EmailIndex: the users with this email *)
UsersWithEmail(email) == {id \in DOMAIN users : users[id].email = email}

(* The handler up to its first await: required fields, email format and    *)
(* password length, each answered 400.                                     *)
StartRegister(r, from, registration) ==
    /\ Idle(r)
    /\ LET invalid ==
             \/ registration.email = <<>>
             \/ registration.password = ""
             \/ registration.userType = ""
             \/ ~EmailMatches(registration.email)
             \/ Len(registration.password) < MinPasswordLength IN
       req' = [req EXCEPT ![r] = [NoReq EXCEPT !.op = "register",
                 !.from = from, !.registration = registration,
                 !.pc = IF invalid THEN "done" ELSE "rg_getUserTypes",
                 !.status = IF invalid THEN 400 ELSE 0]]
    /\ UNCHANGED <<tables, nextId, dup, caller>>

(* Mutant: the admin key is not compared. *)
RegisterGetUserTypes_NoKey(r) ==
    /\ At(r, "rg_getUserTypes")
    /\ IF req[r].registration.userType \notin AllowedUserTypes
          THEN Respond(r, 400, <<>>)
          ELSE Goto(r, "rg_query")
    /\ UNCHANGED <<tables, nextId, dup, auth, caller>>

(* s3.getObject of the allowed user types, then the admin key check.       *)
RegisterGetUserTypes(r) ==
    /\ At(r, "rg_getUserTypes")
    /\ IF req[r].registration.userType \notin AllowedUserTypes
          THEN Respond(r, 400, <<>>)
          ELSE IF req[r].registration.userType = "admin"
                    /\ req[r].registration.adminKey # AdminKey
                  THEN Respond(r, 403, <<>>)
                  ELSE Goto(r, "rg_query")
    /\ UNCHANGED <<tables, nextId, dup, auth, caller>>

RegisterQuery(r) ==
    /\ At(r, "rg_query")
    /\ IF UsersWithEmail(req[r].registration.email) # {}
          THEN Respond(r, 409, <<>>)
          ELSE Goto(r, "rg_hashPassword")
    /\ UNCHANGED <<tables, nextId, dup, auth, caller>>

RegisterHashPassword(r) ==
    /\ At(r, "rg_hashPassword")
    /\ Goto(r, "rg_put")
    /\ UNCHANGED <<tables, nextId, dup, auth, caller>>

RegisterPut(r) ==
    /\ At(r, "rg_put")
    /\ LET userId == Cardinality(DOMAIN users) + 1
           user == UserItem(userId, req[r].registration) IN
          /\ users' = Put(users, userId, user)
          /\ Respond(r, 201, <<user>>)
    /\ UNCHANGED <<shortnames, versions, shortnameVersions, configurations,
                   nextId, dup, auth, caller>>

RegisterStep(r) ==
    \/ RegisterGetUserTypes(r)
    \/ RegisterQuery(r)
    \/ RegisterHashPassword(r)
    \/ RegisterPut(r)

-----------------------------------------------------------------------------
(* AuthProvider *)

AuthSlot == 1

authReducer(state, action) ==
    CASE action.type \in {"LOGIN_REQUEST", "REGISTER_REQUEST"} ->
           [state EXCEPT !.loading = TRUE, !.error = Null]
      [] action.type \in {"LOGIN_SUCCESS", "REGISTER_SUCCESS"} ->
           [state EXCEPT !.isAuthenticated = TRUE, !.user = action.user,
                         !.token = action.token, !.loading = FALSE,
                         !.error = Null]
      [] action.type \in {"LOGIN_FAILURE", "REGISTER_FAILURE"} ->
           [state EXCEPT !.isAuthenticated = FALSE, !.user = Null,
                         !.token = Null, !.loading = FALSE,
                         !.error = action.error]
      [] action.type = "LOGOUT" ->
           [state EXCEPT !.isAuthenticated = FALSE, !.user = Null,
                         !.token = Null, !.loading = FALSE, !.error = Null]
      [] action.type = "CLEAR_ERROR" -> [state EXCEPT !.error = Null]
      [] OTHER -> state

AuthAction(type, user, token, error) ==
    [type |-> type, user |-> user, token |-> token, error |-> error]

(* JSON.parse(userStr) returns for the text JSON.stringify(user) wrote and *)
(* throws for text that is not JSON.                                       *)
StoredUsers == {Null, "{user}", "{bad"}
StoredTokens == {Null, "t"}
JsonParses(userStr) == userStr = "{user}"

(* The initial effect: "Check if user is already logged in". *)
AuthProviderEffect ==
    /\ auth.pc = "unmounted"
    /\ auth' =
         IF auth.storedToken # Null /\ auth.storedUser # Null
            THEN IF JsonParses(auth.storedUser)
                    THEN [auth EXCEPT !.pc = "mounted",
                            !.state = authReducer(auth.state,
                                AuthAction("LOGIN_SUCCESS", auth.storedUser,
                                           auth.storedToken, Null))]
                    ELSE [auth EXCEPT !.pc = "mounted",
                            !.storedToken = Null, !.storedUser = Null]
            ELSE [auth EXCEPT !.pc = "mounted",
                    !.state = authReducer(auth.state,
                        AuthAction("LOGOUT", Null, Null, Null))]
    /\ UNCHANGED <<tables, nextId, req, dup, caller>>

(* register(): REGISTER_REQUEST, then the awaited authApi.register.        *)
AuthRegister(registration) ==
    /\ auth.pc = "mounted"
    /\ StartRegister(AuthSlot, "auth", registration)
    /\ auth' = [auth EXCEPT !.pc = "w_register",
                  !.state = authReducer(auth.state,
                      AuthAction("REGISTER_REQUEST", Null, Null, Null))]

(* The response arrives: the entries are stored and REGISTER_SUCCESS is    *)
(* dispatched, or the catch block dispatches REGISTER_FAILURE.             *)
AuthRegisterSettled ==
    /\ auth.pc = "w_register"
    /\ At(AuthSlot, "done")
    /\ req[AuthSlot].from = "auth"
    /\ auth' =
         IF req[AuthSlot].status \in 200..299
            THEN [auth EXCEPT !.pc = "mounted", !.storedToken = "t",
                    !.storedUser = "{user}",
                    !.state = authReducer(auth.state,
                        AuthAction("REGISTER_SUCCESS", "{user}", "t", Null))]
            ELSE [auth EXCEPT !.pc = "mounted",
                    !.state = authReducer(auth.state,
                        AuthAction("REGISTER_FAILURE", Null, Null,
                                   "Registration failed"))]
    /\ req' = [req EXCEPT ![AuthSlot] = NoReq]
    /\ UNCHANGED <<tables, nextId, dup, caller>>

-----------------------------------------------------------------------------
(* Registration and the browser's auth state: the provider mounts over any *)
(* content of the two localStorage entries; registrations come from the    *)
(* provider and from other clients; awaited calls may throw.               *)
Emails == {<<"a", "@", "b", ".", "c">>, <<"d", "@", "b", ".", "c">>, <<"a", "b">>}
Passwords == {"12345678", "short"}
UserTypes == {"admin", "user", "root"}
AdminKeys == {AdminKey, "wrong", Undefined}

Registrations ==
    [email : Emails, password : Passwords, userType : UserTypes,
     adminKey : AdminKeys]

InitAuth ==
    /\ shortnames = <<>>
    /\ versions = <<>>
    /\ shortnameVersions = <<>>
    /\ configurations = <<>>
    /\ nextId = 0
    /\ req = [r \in Reqs |-> NoReq]
    /\ dup = NoDup
    /\ users = <<>>
    /\ caller = NoCaller
    /\ \E token \in StoredTokens, userStr \in StoredUsers :
          auth = [NoAuth EXCEPT !.storedToken = token, !.storedUser = userStr]

StartRegisterDirect ==
    /\ \E registration \in Registrations :
          StartRegister(AuthSlot, "client", registration)
    /\ UNCHANGED auth

NextAuth ==
    \/ AuthProviderEffect
    \/ \E registration \in Registrations : AuthRegister(registration)
    \/ AuthRegisterSettled
    \/ StartRegisterDirect
    \/ RegisterStep(AuthSlot)
    \/ StoreFault(AuthSlot)
    \/ Complete(AuthSlot)

SpecAuth == InitAuth /\ [][NextAuth]_vars

(* The effect runs once the provider has rendered, the lambda runs to its  *)
(* answer and the awaiting register() resumes; no user action is assumed.  *)
SpecAuthFair ==
    /\ SpecAuth
    /\ WF_vars(AuthProviderEffect)
    /\ WF_vars(RegisterStep(AuthSlot))
    /\ WF_vars(AuthRegisterSettled)

(* A registration as admin whose adminKey is not the configured key.       *)
AdminWithoutKey(registration) ==
    registration.userType = "admin" /\ registration.adminKey # AdminKey

(* C23 as stated: a registration as admin whose adminKey is not the        *)
(* configured key is answered 403 and writes no user record.               *)
C23_Step(r) ==
    (/\ req'[r].op = "register"
     /\ AdminWithoutKey(req'[r].registration)
     /\ req[r].pc # "done" /\ req'[r].pc = "done")
      => req'[r].status = 403 /\ users' = users

(* C23 as stated, over every step of every request. *)
C23_AdminKeyOr403 == [][\A r \in Reqs : C23_Step(r)]_vars

(* C23 amended: such a registration never gets past the admin key check,   *)
(* writes no user record and is never answered 201: it is answered 400     *)
(* when a required field is missing, the email is malformed or the         *)
(* password is too short, 500 when reading the user types throws, and 403  *)
(* otherwise.                                                              *)
C23_AmendedStep(r) ==
    (/\ req'[r].op = "register"
     /\ AdminWithoutKey(req'[r].registration)
     /\ req'[r] # req[r])
      => /\ users' = users
         /\ req'[r].pc \in {"rg_getUserTypes", "done"}
         /\ req'[r].pc = "done" =>
               \/ Idle(r) /\ req'[r].status = 400
               \/ At(r, "rg_getUserTypes") /\ req'[r].status \in {403, 500}

(* C23 amended, over every step of every request. *)
C23_AdminKeyRequired == [][\A r \in Reqs : C23_AmendedStep(r)]_vars

C23_Witness ==
    \E r \in Reqs :
        /\ Finished(r, "register", 403)
        /\ req[r].registration.adminKey = "wrong"
        /\ \E id \in DOMAIN users : users[id].userType = "admin"

(* C30 as stated: whatever the two localStorage entries hold when the      *)
(* provider mounts, the loading flag of the auth state is eventually       *)
(* false.                                                                  *)
C30_LoadingEnds == <>(auth.pc # "unmounted" /\ ~auth.state.loading)

-----------------------------------------------------------------------------
(* Two ways of removing a shortname.  A client builds a store one request  *)
(* at a time, no call throwing, and remembers it.  It first removes the     *)
(* shortname through the version lambda: deleteVersion for each Version of  *)
(* the shortname, then the Shortname item itself.  It notes the store that  *)
(* left, starts over from the store it remembered and calls                 *)
(* deleteShortname.                                                         *)
StartBuild ==
    /\ caller.phase = "idle"
    /\ StartCascade(AnySlugs, AnyLabels, Keys)

CallerRemember ==
    /\ caller.phase = "idle"
    /\ AllIdle
    /\ \E s \in AnySlugs :
          /\ Has(shortnames, s)
          /\ caller' = [phase |-> "byVersion", slug |-> s, store |-> tables,
                        result |-> <<>>]
    /\ UNCHANGED <<tables, nextId, req, dup, auth>>

CallerDeleteVersion ==
    /\ caller.phase = "byVersion"
    /\ \E k \in VersionsOf(caller.slug) :
          StartDeleteVersion(1, caller.slug, versions[k].version)

CallerDeleteRecord ==
    /\ caller.phase = "byVersion"
    /\ AllIdle
    /\ VersionsOf(caller.slug) = {}
    /\ shortnames' = Delete(shortnames, caller.slug)
    /\ caller' = [caller EXCEPT !.phase = "removed"]
    /\ UNCHANGED <<versions, shortnameVersions, configurations, users, nextId,
                   req, dup, auth>>

CallerStartOver ==
    /\ caller.phase = "removed"
    /\ caller' = [caller EXCEPT !.phase = "cascade", !.result = tables]
    /\ shortnames' = caller.store[1]
    /\ versions' = caller.store[2]
    /\ shortnameVersions' = caller.store[3]
    /\ configurations' = caller.store[4]
    /\ users' = caller.store[5]
    /\ UNCHANGED <<nextId, req, dup, auth>>

CallerDeleteShortname ==
    /\ caller.phase = "cascade"
    /\ tables = caller.store
    /\ StartDeleteShortname(1, caller.slug)

NextEquiv ==
    \/ StartBuild
    \/ CallerRemember
    \/ CallerDeleteVersion
    \/ CallerDeleteRecord
    \/ CallerStartOver
    \/ CallerDeleteShortname
    \/ HandlerStep(1)
    \/ Complete(1)

SpecEquiv == Init /\ [][NextEquiv]_vars

(* C24: when deleteShortname(slug) has answered 200, every table is        *)
(* exactly as, from the same store, deleteVersion(slug, label) for each     *)
(* Version of slug followed by the deletion of the Shortname item leaves    *)
(* it.                                                                      *)
C24_SameFinalStore ==
    (caller.phase = "cascade" /\ Finished(1, "deleteShortname", 200))
        => tables = caller.result

C24_Witness ==
    /\ caller.phase = "cascade"
    /\ Finished(1, "deleteShortname", 200)
    /\ Cardinality(req[1].deletedVersions) >= 2
    /\ Cardinality(req[1].deletedConfigs) >= 2
    /\ tables = caller.result
    /\ ConfigurationsOf(caller.slug) = {}

-----------------------------------------------------------------------------
(* C25: with createVersion, createConfiguration, deleteVersion and         *)
(* deleteShortname requests interleaved at single DynamoDB calls and no     *)
(* call throwing, in every reachable state every Version item's shortname   *)
(* is in Shortnames and every Configuration item's scope is in Versions.    *)
C25_NoOrphanInterleaved ==
    /\ \A k \in DOMAIN versions : Has(shortnames, versions[k].shortname)
    /\ \A id \in DOMAIN configurations :
          Has(versions, ScopeKey(configurations[id].shortname,
                                 configurations[id].version))

-----------------------------------------------------------------------------
(* Rejections.  One request at a time over both layouts, no call throwing; *)
(* before each request the client notes the tables.                         *)
RejectSlugs == {"s1"}

StartReject ==
    \/ \E s \in RejectSlugs, d \in Descriptions : StartCreateShortname(1, s, d)
    \/ \E v \in PlainLabels : StartTopCreateVersion(1, "client", v, "", TRUE)
          /\ UNCHANGED dup
    \/ \E s \in RejectSlugs, v \in PlainLabels, d \in Descriptions :
          StartAddShortnameToVersion(1, "client", v, s, d) /\ UNCHANGED dup
    \/ \E s \in RejectSlugs, v \in PlainLabels :
          StartCreateVersionForShortname(1, s, v, "", TRUE)
    \/ \E s \in RejectSlugs, v \in PlainLabels : StartCreateVersion(1, s, v, "", TRUE)
    \/ \E s \in RejectSlugs, v \in PlainLabels, k \in DeleteKeys :
          StartCreateConfiguration(1, "client", s, v, k, "x", "") /\ UNCHANGED dup
    \/ \E s \in RejectSlugs : StartDeleteShortname(1, s)
    \/ \E s \in RejectSlugs, v \in PlainLabels : StartDeleteVersion(1, s, v)
    \/ \E v \in PlainLabels : StartGetVersionShortnames(1, "client", v)
          /\ UNCHANGED dup

CallerNote ==
    /\ AllIdle
    /\ caller.store # tables
    /\ caller' = [caller EXCEPT !.phase = "noted", !.store = tables]
    /\ UNCHANGED <<tables, nextId, req, dup, auth>>

NextReject ==
    \/ CallerNote
    \/ caller.store = tables /\ StartReject
    \/ HandlerStep(1)
    \/ VersionFirstStep(1)
    \/ CreateVersionForShortnameStep(1)
    \/ Complete(1)

SpecReject == Init /\ [][NextReject]_vars

(* C26: when a request has answered 404 or 409, every table is as it was   *)
(* when the request was made: the handler wrote nothing before rejecting.   *)
C26_RejectWritesNothing ==
    (At(1, "done") /\ req[1].status \in {404, 409}) => tables = caller.store

-----------------------------------------------------------------------------
(* What a copy shares with its original. *)
Content(config) == <<config.key, config.value, config.description>>

(* The listing getAllConfigurations answers for (shortname, version). *)
Listing(shortname, version) ==
    QueryShortnameVersionIndex(configurations, ScopeKey(shortname, version))

(* The destination scope of the shortname holds one copy of each of the    *)
(* first n configurations listed for its source scope and nothing else.    *)
PrefixCopied(shortname, n) ==
    LET listed == Listing(shortname, dup.sourceVersion)
        copies == ScopeConfigs(shortname, dup.version) IN
        /\ {Content(copy) : copy \in copies}
              = {Content(listed[i]) : i \in 1..n}
        /\ Cardinality(copies) = n

-----------------------------------------------------------------------------
(* Retrying a failed deleteShortname.  A client builds a store one request *)
(* at a time, picks a stored shortname and calls deleteShortname; any       *)
(* DynamoDB call of that first attempt may throw.  When it is answered 500  *)
(* the client calls deleteShortname again; no call of the retry throws and  *)
(* no other request is made.                                                *)
RetrySlugs == {"s1"}

StartBuildRetry ==
    /\ caller.phase = "idle"
    /\ StartCascade(RetrySlugs, PlainLabels, Keys)

CompleteBuild ==
    /\ caller.phase = "idle"
    /\ Complete(1)

CallerChoose ==
    /\ caller.phase = "idle"
    /\ AllIdle
    /\ \E s \in RetrySlugs :
          /\ Has(shortnames, s)
          /\ caller' = [NoCaller EXCEPT !.phase = "attempt", !.slug = s]
    /\ UNCHANGED <<tables, nextId, req, dup, auth>>

CallerDelete ==
    /\ caller.phase \in {"attempt", "retry"}
    /\ StartDeleteShortname(1, caller.slug)

AttemptFault ==
    /\ caller.phase = "attempt"
    /\ StoreFault(1)

(* The first attempt was answered 500: the client notes what it had        *)
(* deleted and will call again.                                             *)
CallerFailed ==
    /\ caller.phase = "attempt"
    /\ Finished(1, "deleteShortname", 500)
    /\ caller' = [caller EXCEPT !.phase = "retry",
                     !.result = <<req[1].deletedVersions, req[1].deletedConfigs>>]
    /\ req' = [req EXCEPT ![1] = NoReq]
    /\ UNCHANGED <<tables, nextId, dup, auth>>

(* The client has its answer and makes no further request.                 *)
CallerDone ==
    /\ \/ caller.phase = "attempt" /\ Finished(1, "deleteShortname", 200)
       \/ caller.phase = "retry" /\ At(1, "done")
    /\ caller' = [caller EXCEPT !.phase = "finished"]
    /\ UNCHANGED <<tables, nextId, req, dup, auth>>

NextRetry ==
    \/ StartBuildRetry
    \/ CompleteBuild
    \/ CallerChoose
    \/ CallerDelete
    \/ AttemptFault
    \/ CallerFailed
    \/ CallerDone
    \/ HandlerStep(1)

SpecRetry == Init /\ [][NextRetry]_vars

(* The client does call again and the lambda runs to its answer.           *)
SpecRetryFair ==
    /\ SpecRetry
    /\ WF_vars(CallerDelete)
    /\ WF_vars(HandlerStep(1))

(* Nothing refers to the shortname any more. *)
Gone(shortname) ==
    /\ ~Has(shortnames, shortname)
    /\ VersionsOf(shortname) = {}
    /\ ConfigurationsOf(shortname) = {}

(* C28: after a deleteShortname(slug) that was answered 500 the Shortname  *)
(* item is still stored, and the deleteShortname(slug) issued again, with   *)
(* no call throwing and no other request, is eventually answered 200 with   *)
(* no Shortname, Version or Configuration item of slug left.                *)
C28_RetryCompletes ==
    /\ []((caller.phase = "retry" /\ Idle(1)) => Has(shortnames, caller.slug))
    /\ (caller.phase = "retry")
          ~> (Finished(1, "deleteShortname", 200) /\ Gone(caller.slug))

C28_Witness ==
    /\ caller.phase = "retry"
    /\ caller.result[1] # {}
    /\ caller.result[2] # {}
    /\ Finished(1, "deleteShortname", 200)
    /\ req[1].deletedVersions # {}
    /\ req[1].deletedConfigs # {}
    /\ Gone(caller.slug)

-----------------------------------------------------------------------------
(* Version lambda, version-first routes: getVersion and updateVersion.     *)
(* These requests keep the event they were invoked with.                    *)

Invoke(r, op, pc, version) ==
    /\ req' = [req EXCEPT ![r] = [NoReq EXCEPT !.op = op, !.pc = pc,
                  !.from = "client", !.version = version,
                  !.event = req[r].event]]
    /\ UNCHANGED <<tables, nextId, dup, auth, caller>>

TopGetVersionGet(r) ==
    /\ At(r, "tgv_get")
    /\ IF ~Has(versions, req[r].version)
          THEN Respond(r, 404, <<>>)
          ELSE Respond(r, 200, <<versions[req[r].version]>>)
    /\ UNCHANGED <<tables, nextId, dup, auth, caller>>

TopUpdateVersionGet(r) ==
    /\ At(r, "tuv_get")
    /\ IF ~Has(versions, req[r].version)
          THEN Respond(r, 404, <<>>)
          ELSE Goto(r, "tuv_update")
    /\ UNCHANGED <<tables, nextId, dup, auth, caller>>

TopUpdateVersionUpdate(r) ==
    /\ At(r, "tuv_update")
    /\ LET id == req[r].version
           old == IF Has(versions, id) THEN versions[id]
                  ELSE [BlankVersion(Undefined) EXCEPT !.version = id]
           item == UpdatedVersion(old, req[r].event.body) IN
          /\ versions' = Update(versions, id, item)
          /\ Respond(r, 200, <<item>>)
    /\ UNCHANGED <<shortnames, shortnameVersions, configurations, nextId, dup,
                   users, auth, caller>>

(* The handler's dispatch for a path that starts with /api/versions and    *)
(* carries {version}: path is the sequence of the path's segments,          *)
(* /api/versions/{version} or /api/versions/{version}/shortnames.           *)
IncludesShortnames(path) == \E i \in 1..Len(path) : path[i] = "shortnames"

VersionFirstHandler(r) ==
    /\ Idle(r)
    /\ Len(req[r].event.path) >= 3
    /\ req[r].event.path[2] = "versions"
    /\ LET event == req[r].event
           body == event.body
           version == event.path[3]
           httpMethod == event.httpMethod IN
       IF ~Authorized(event.authorization) THEN Reject(r, 401)
       ELSE IF httpMethod = "GET" /\ ~IncludesShortnames(event.path)
          THEN Invoke(r, "topGetVersion", "tgv_get", version)
       ELSE IF httpMethod = "PUT"
          THEN IF ~body.wellFormed THEN Reject(r, ParseFailure)
               ELSE Invoke(r, "topUpdateVersion", "tuv_get", version)
       ELSE IF httpMethod = "DELETE"
          THEN Invoke(r, "topDeleteVersion", "tdv_get", version)
       ELSE IF IncludesShortnames(event.path) /\ httpMethod = "GET"
          THEN Invoke(r, "getVersionShortnames", "gs_query", version)
       ELSE IF IncludesShortnames(event.path) /\ httpMethod = "POST"
          THEN IF ~body.wellFormed THEN Reject(r, ParseFailure)
               ELSE IF Falsy(Field(body, "shortname")) THEN Reject(r, 400)
               ELSE /\ req' = [req EXCEPT ![r] = [NoReq EXCEPT
                          !.op = "addShortnameToVersion", !.pc = "as_getVersion",
                          !.from = "client", !.version = version,
                          !.shortname = body.shortname,
                          !.description = OrEmpty(Field(body, "description")),
                          !.event = event]]
                    /\ UNCHANGED <<tables, nextId, dup, auth, caller>>
       ELSE Reject(r, 405)

-----------------------------------------------------------------------------
(* Requests on /api/versions/{version} and /api/versions/{version}/shortnames *)
(* with any method, one at a time over a store built in both layouts; no    *)
(* call throws.                                                              *)
Methods == {"GET", "POST", "PUT", "DELETE", "PATCH"}
RouteSlug == "s1"

RoutePaths ==
    {<<"api", "versions", v>> : v \in PlainLabels}
       \cup {<<"api", "versions", v, "shortnames">> : v \in PlainLabels}

RouteBodies == {Body(AllFields, "x", "d"), Body({"isActive"}, Undefined, Undefined)}

StartRouteBuild ==
    /\ req[1] = NoReq
    /\ \/ \E v \in PlainLabels : StartTopCreateVersion(1, "client", v, "", TRUE)
             /\ UNCHANGED dup
       \/ \E v \in PlainLabels : StartCreateVersion(1, RouteSlug, v, "", TRUE)
       \/ \E v \in PlainLabels, k \in DeleteKeys :
             StartCreateConfiguration(1, "client", RouteSlug, v, k, "x", "")
               /\ UNCHANGED dup

NextRoute ==
    \/ StartRouteBuild
    \/ \E httpMethod \in Methods, path \in RoutePaths, body \in RouteBodies :
          Receive(1, [NoEvent EXCEPT !.httpMethod = httpMethod, !.path = path,
                                     !.body = body])
    \/ VersionFirstHandler(1)
    \/ TopCreateVersionGet(1) \/ TopCreateVersionPut(1)
    \/ CreateVersionGetShortname(1) \/ CreateVersionGetVersion(1)
    \/ CreateVersionPut(1)
    \/ CreateConfigurationGetShortname(1) \/ CreateConfigurationGetVersion(1)
    \/ CreateConfigurationQuery(1) \/ CreateConfigurationPut(1)
    \/ GetVersionShortnamesQuery(1)
    \/ AddShortnameToVersionGetVersion(1) \/ AddShortnameToVersionGetShortname(1)
    \/ AddShortnameToVersionPutShortname(1)
    \/ AddShortnameToVersionGetAssociation(1)
    \/ AddShortnameToVersionPutAssociation(1)
    \/ TopGetVersionGet(1)
    \/ TopUpdateVersionGet(1) \/ TopUpdateVersionUpdate(1)
    \/ TopDeleteVersionStep(1)
    \/ Complete(1)

SpecRoute == Init /\ [][NextRoute]_vars

(* A request the handler has not answered yet, made on                      *)
(* /api/versions/{version}/shortnames with a method other than GET and POST. *)
OtherMethodOnShortnames(r) ==
    /\ req[r].pc # "done"
    /\ IncludesShortnames(req[r].event.path)
    /\ req[r].event.httpMethod \notin {"GET", "POST"}

(* C29: every step of a request made on /api/versions/{version}/shortnames *)
(* with a method other than GET and POST is the answer 405, and it leaves   *)
(* every table unchanged.                                                   *)
C29_Step(r) ==
    (OtherMethodOnShortnames(r) /\ req'[r] # req[r])
      => /\ req'[r].pc = "done"
         /\ req'[r].status = 405
         /\ UNCHANGED tables

(* C29, over every step of every request. *)
C29_OnlyGetAndPost == [][\A r \in Reqs : C29_Step(r)]_vars

=============================================================================
